---- MODULE Spec2Model ----
(***************************************************************************)
(* Model of the internal-secrets-operator reconciliation engine:           *)
(*   internal/controller/secret_controller.go  (Reconcile and its getters) *)
(*   pkg/config/maintenance_window.go           (window evaluator)         *)
(*   pkg/generator/generator.go                 (value generator)          *)
(*                                                                         *)
(* Time is counted in clock ticks.  The zero instant is a Sunday,          *)
(* 00:00:00 UTC, so that weekday 0 is Sunday as in Go's time.Weekday.      *)
(***************************************************************************)
EXTENDS Integers, Sequences, FiniteSets, TLC

\* ------------------------------------------------------------------ time
\* Resolution of the clock: ticks per second (time.Time is finer than the
\* whole seconds an RFC3339 timestamp keeps).
TicksPerSecond == 2

Second == TicksPerSecond
Minute == 60 * Second
Hour   == 60 * Minute
Day    == 24 * Hour
Week   == 7 * Day

\* nextRotation == nil / ctrl.Result{} without RequeueAfter
NoDelay == 0 - 1

Max(a, b) == IF a >= b THEN a ELSE b

\* ----------------------------------------------------- annotation values
\* An annotation is absent, or holds a string.  Strings are kept as small
\* records by what they spell: the empty string, a duration ("90m" is
\* [n |-> 90, u |-> "m"]), an integer, a timestamp, or other text.
Absent     == [k |-> "absent"]
EmptyStr   == [k |-> "empty"]
Text(s)    == [k |-> "text", s |-> s]
DurStr(n, u) == [k |-> "dur", n |-> n, u |-> u]
IntStr(n)  == [k |-> "int", n |-> n]
Stamp(sec) == [k |-> "ts", sec |-> sec]

\* value, ok := annotations[key]; ok && value != ""
HasValue(v) == v.k \notin {"absent", "empty"}

\* config.ParseDuration: time.ParseDuration's grammar plus the unit d = 24h.
DurationUnits == {"s", "m", "h", "d"}
UnitTicks(u) ==
    CASE u = "s" -> Second
      [] u = "m" -> Minute
      [] u = "h" -> Hour
      [] u = "d" -> 24 * Hour
ParseDuration(v) ==
    IF v.k = "dur" /\ v.u \in DurationUnits
    THEN [ok |-> TRUE, d |-> v.n * UnitTicks(v.u)]
    ELSE [ok |-> FALSE, d |-> 0]

\* strconv.Atoi
Atoi(v) == IF v.k = "int" THEN [ok |-> TRUE, n |-> v.n] ELSE [ok |-> FALSE, n |-> 0]

\* time.Time.Format(time.RFC3339): the instant with its fraction of a second
\* dropped; time.Parse(time.RFC3339, ...) gives that whole second back.
FormatRFC3339(t) == Stamp(t \div TicksPerSecond)
ParseRFC3339(v) ==
    IF v.k = "ts" THEN [ok |-> TRUE, t |-> v.sec * TicksPerSecond]
    ELSE [ok |-> FALSE, t |-> 0]

\* ------------------------------------------------------------ data values
NoValue    == <<"none">>
UserValue(n) == <<"user", n>>
\* The k-th value the random source hands to the invocation that read
\* resourceVersion n - 1: a value no earlier invocation has seen.
GenValue(n, k) == <<"gen", n, k>>

\* -------------------------------------------------------------- generator
TypeString  == "string"
TypeBytes   == "bytes"
TypeRSA     == "rsa"
TypeECDSA   == "ecdsa"
TypeEd25519 == "ed25519"

\* SecretGenerator.GenerateStringWithCharset: the checks before the draw.
GenerateStringOk(length, charsetLen) == length > 0 /\ charsetLen > 0

\* SecretGenerator.GenerateStringWithCharset.  A charset is the byte string
\* Go indexes: position p holds one byte, and charset[p] is the width in
\* bytes of the character that byte belongs to (1 for an ASCII character).
\* The value returned is the sequence of charset positions copied to the
\* result, result[i] = charset[int(randomBytes[i]) % charsetLen].
GenerateStringWithCharset(length, charset, randomBytes) ==
    IF ~GenerateStringOk(length, Len(charset))
    THEN [ok |-> FALSE, value |-> NoValue]
    ELSE [ok |-> TRUE,
          value |-> [i \in 1..length |-> (randomBytes[i] % Len(charset)) + 1]]

\* SecretGenerator.GenerateBytes
GenerateBytesOk(length) == length > 0



\* GenerateWithCharset whose default branch generates a string.
GenerateWithCharsetOk_UnknownAsString(genType, length, charsetLen) ==
    CASE genType = TypeBytes -> GenerateBytesOk(length)
      [] genType \in {TypeRSA, TypeECDSA, TypeEd25519} -> FALSE
      [] OTHER -> GenerateStringOk(length, charsetLen)

\* SecretGenerator.GenerateWithCharset: TRUE when a value is returned.
GenerateWithCharsetOk(genType, length, charsetLen) ==
    CASE genType \in {TypeString, ""} -> GenerateStringOk(length, charsetLen)
      [] genType = TypeBytes -> GenerateBytesOk(length)
      [] genType \in {TypeRSA, TypeECDSA, TypeEd25519} -> FALSE
      [] OTHER -> FALSE

\* SecretGenerator.Generate
GenerateOk(genType, length, charsetLen) ==
    GenerateWithCharsetOk(genType, length, charsetLen)

\* ------------------------------------------------------ window evaluator
\* strings.ToLower(strings.TrimSpace(day)) on the spellings used here.
Normalized(day) ==
    CASE day = "Saturday"  -> "saturday"
      [] day = " sunday "  -> "sunday"
      [] day = "WEDNESDAY" -> "wednesday"
      [] OTHER -> day

\* validDays / ParseDay: the weekday (0 = Sunday) of a day name, or -1 for
\* an error.
ParseDay(day) ==
    CASE Normalized(day) = "sunday"    -> 0
      [] Normalized(day) = "monday"    -> 1
      [] Normalized(day) = "tuesday"   -> 2
      [] Normalized(day) = "wednesday" -> 3
      [] Normalized(day) = "thursday"  -> 4
      [] Normalized(day) = "friday"    -> 5
      [] Normalized(day) = "saturday"  -> 6
      [] OTHER -> 0 - 1

\* time.LoadLocation: the zones the tests name, or an error.  The clock of
\* the model starts on a Sunday 00:00 UTC of winter time (1 March 2026);
\* ZoneOffset is the zone's offset from UTC in force at instant t.  Berlin
\* keeps UTC+1 for the weeks modelled; New York goes from UTC-5 to UTC-4
\* on the second Sunday at 02:00 local time, 07:00 UTC.
KnownZones == {"UTC", "Europe/Berlin", "America/New_York"}
ZoneOffset(tz, t) ==
    CASE tz = "UTC" -> 0
      [] tz = "Europe/Berlin" -> Hour
      [] tz = "America/New_York" ->
            IF t < Week + 7 * Hour THEN 0 - 5 * Hour ELSE 0 - 4 * Hour
      [] OTHER -> 0

\* t.In(loc): the civil time of instant t in the zone, as ticks since the
\* zone's Sunday 00:00.
LocalTime(t, tz) == t + ZoneOffset(tz, t)
WeekdayOf(local) == (local \div Day) % 7
MinuteOfDay(local) == (local % Day) \div Minute

\* ParseTime gives (hour, minute); a window keeps them as [h, m].
MinutesOf(hm) == hm.h * 60 + hm.m

\* (variant: the end minute still belongs to the window)
IsInWindow_EndInclusive(w, t) ==
    /\ w.timezone \in KnownZones
    /\ \E i \in 1..Len(w.days) :
          ParseDay(w.days[i]) = WeekdayOf(LocalTime(t, w.timezone))
    /\ MinuteOfDay(LocalTime(t, w.timezone)) >= MinutesOf(w.startTime)
    /\ MinuteOfDay(LocalTime(t, w.timezone)) <= MinutesOf(w.endTime)

\* MaintenanceWindow.IsInWindow
IsInWindow(w, t) ==
    IF w.timezone \notin KnownZones THEN FALSE
    ELSE LET localTime == LocalTime(t, w.timezone)
             currentDay == WeekdayOf(localTime)
             dayMatches == \E i \in 1..Len(w.days) : ParseDay(w.days[i]) = currentDay
             currentMinutes == MinuteOfDay(localTime)
         IN  /\ dayMatches
             /\ currentMinutes >= MinutesOf(w.startTime)
             /\ currentMinutes < MinutesOf(w.endTime)

\* (variant: only the first window of the list is asked)
IsInAnyWindow_FirstOnly(m, t) ==
    IF ~m.enabled THEN TRUE
    ELSE Len(m.windows) > 0 /\ IsInWindow(m.windows[1], t)

\* MaintenanceWindowsConfig.IsInAnyWindow
IsInAnyWindow(m, t) ==
    IF ~m.enabled THEN TRUE
    ELSE \E i \in 1..Len(m.windows) : IsInWindow(m.windows[i], t)

\* (variant: the list is searched from its end)
GetActiveWindow_Last(m, t) ==
    IF ~m.enabled THEN 0
    ELSE IF \E i \in 1..Len(m.windows) : IsInWindow(m.windows[i], t)
    THEN CHOOSE i \in 1..Len(m.windows) :
             /\ IsInWindow(m.windows[i], t)
             /\ \A j \in (i + 1)..Len(m.windows) : ~IsInWindow(m.windows[j], t)
    ELSE 0

\* MaintenanceWindowsConfig.GetActiveWindow: the position in the list of the
\* window returned, 0 for nil.
GetActiveWindow(m, t) ==
    IF ~m.enabled THEN 0
    ELSE IF \E i \in 1..Len(m.windows) : IsInWindow(m.windows[i], t)
    THEN CHOOSE i \in 1..Len(m.windows) :
             /\ IsInWindow(m.windows[i], t)
             /\ \A j \in 1..(i - 1) : ~IsInWindow(m.windows[j], t)
    ELSE 0

\* time.Time{}: the zero time, before every other time.
ZeroTime == 0 - 1
IsZero(x) == x = ZeroTime
Before(a, b) == a < b

\* time.Date(y, m, d, hour, minute, 0, 0, loc) for the civil day `daysAhead`
\* days after the day of localTime.  time.Date looks the offset up at the
\* civil time read as an instant, and again at the instant that offset
\* gives; the second offset is the one it applies.
DateAt(localTime, daysAhead, minutes, tz) ==
    LET unix   == ((localTime \div Day) + daysAhead) * Day + minutes * Minute
        offset == ZoneOffset(tz, unix)
    IN  IF offset = 0 THEN unix
        ELSE unix - ZoneOffset(tz, unix - offset)

\* (variant: on a configured weekday today's start is returned whatever the
\* time of day)
NextStart_TodayWhenListed(w, t) ==
    LET localTime  == LocalTime(t, w.timezone)
        windowDays == { ParseDay(w.days[i]) : i \in 1..Len(w.days) } \ {0 - 1}
        daysAhead  == CHOOSE k \in 0..7 :
                          /\ ((WeekdayOf(localTime) + k) % 7) \in windowDays
                          /\ \A j \in 0..(k - 1) :
                                ((WeekdayOf(localTime) + j) % 7) \notin windowDays
    IN  IF windowDays = {} THEN ZeroTime
        ELSE DateAt(localTime, daysAhead, MinutesOf(w.startTime), w.timezone)

\* (variant: inside the window the next occurrence is returned, not the
\* start of the current one)
NextStart_SkipsCurrent(w, t) ==
    LET localTime  == LocalTime(t, w.timezone)
        windowDays == { ParseDay(w.days[i]) : i \in 1..Len(w.days) } \ {0 - 1}
        today      == WeekdayOf(localTime) \in windowDays
                      /\ MinuteOfDay(localTime) < MinutesOf(w.startTime)
        daysAhead  == CHOOSE k \in 1..7 :
                          /\ ((WeekdayOf(localTime) + k) % 7) \in windowDays
                          /\ \A j \in 1..(k - 1) :
                                ((WeekdayOf(localTime) + j) % 7) \notin windowDays
    IN  IF windowDays = {} THEN ZeroTime
        ELSE DateAt(localTime, IF today THEN 0 ELSE daysAhead,
                    MinutesOf(w.startTime), w.timezone)

\* MaintenanceWindow.NextStart
NextStart(w, t) ==
    IF w.timezone \notin KnownZones THEN ZeroTime
    ELSE
    LET localTime   == LocalTime(t, w.timezone)
        windowDays  == { ParseDay(w.days[i]) : i \in 1..Len(w.days) } \ {0 - 1}
        currentDay  == WeekdayOf(localTime)
        currentMinutes == MinuteOfDay(localTime)
        startMinutes == MinutesOf(w.startTime)
        endMinutes  == MinutesOf(w.endTime)
    IN  IF windowDays = {} THEN ZeroTime
        ELSE IF /\ currentDay \in windowDays
                /\ \/ currentMinutes < startMinutes
                   \/ currentMinutes >= startMinutes /\ currentMinutes < endMinutes
        THEN DateAt(localTime, 0, startMinutes, w.timezone)
        ELSE LET daysAhead ==
                     CHOOSE k \in 1..7 :
                         /\ ((currentDay + k) % 7) \in windowDays
                         /\ \A j \in 1..(k - 1) : ((currentDay + j) % 7) \notin windowDays
             IN  DateAt(localTime, daysAhead, startMinutes, w.timezone)

\* The loop of NextWindowStart from window i on, `earliest` being the
\* variable of that name.
RECURSIVE EarliestFrom(_, _, _, _)
EarliestFrom(earliest, windows, i, t) ==
    IF i > Len(windows) THEN earliest
    ELSE LET next == NextStart(windows[i], t)
         IN  EarliestFrom(IF IsZero(earliest) \/ Before(next, earliest)
                          THEN next ELSE earliest,
                          windows, i + 1, t)

\* (variant: the first window's next start is returned)
NextWindowStart_FirstWindow(m, t) ==
    IF ~m.enabled \/ Len(m.windows) = 0 THEN ZeroTime
    ELSE NextStart(m.windows[1], t)

\* MaintenanceWindowsConfig.NextWindowStart
NextWindowStart(m, t) ==
    IF ~m.enabled \/ Len(m.windows) = 0 THEN ZeroTime
    ELSE EarliestFrom(ZeroTime, m.windows, 1, t)

\* DurationUntilNextWindow without the test for a window covering t.
DurationUntilNextWindow_IgnoresCurrent(m, t) ==
    IF ~m.enabled THEN 0
    ELSE IF IsZero(NextWindowStart(m, t)) THEN 0
    ELSE NextWindowStart(m, t) - t

\* MaintenanceWindowsConfig.DurationUntilNextWindow
DurationUntilNextWindow(m, t) ==
    IF ~m.enabled THEN 0
    ELSE IF IsInAnyWindow(m, t) THEN 0
    ELSE IF IsZero(NextWindowStart(m, t)) THEN 0
    ELSE NextWindowStart(m, t) - t

\* ------------------------------------------------------ window validation
\* A time string as strings.Split(timeStr, ":") sees it: the sequence of its
\* parts ("" is the empty sequence here, tested before the split).  A part is
\* what fmt.Sscanf(part, "%d", &x) makes of it: whether it starts with an
\* integer (num), that integer (n), and the characters left unread (rest).
Part(num, n, rest) == [num |-> num, n |-> n, rest |-> rest]
HHMM(h, m) == <<Part(TRUE, h, ""), Part(TRUE, m, "")>>

\* ParseTime.  Sscanf fails only when no integer starts the part; input left
\* after the integer is not an error.  The tests are made in the code's
\* order, the first that fails returning the error.
ParseTime(timeStr) ==
    IF \/ timeStr = << >>
       \/ Len(timeStr) # 2
       \/ ~timeStr[1].num
       \/ ~timeStr[2].num
       \/ timeStr[1].n < 0 \/ timeStr[1].n > 23
       \/ timeStr[2].n < 0 \/ timeStr[2].n > 59
    THEN [ok |-> FALSE, h |-> 0, m |-> 0]
    ELSE [ok |-> TRUE, h |-> timeStr[1].n, m |-> timeStr[2].n]

\* MaintenanceWindow.Validate: "none", or the check that returned the error.
Validate(w) ==
    IF Len(w.days) = 0 THEN "days"
    ELSE IF \E i \in 1..Len(w.days) : ParseDay(w.days[i]) < 0 THEN "day"
    ELSE IF ~ParseTime(w.startTime).ok THEN "startTime"
    ELSE IF ~ParseTime(w.endTime).ok THEN "endTime"
    ELSE IF MinutesOf(ParseTime(w.endTime)) <= MinutesOf(ParseTime(w.startTime))
         THEN "order"
    ELSE IF w.timezone = "" THEN "timezone"
    ELSE IF w.timezone \notin KnownZones THEN "location"
    ELSE "none"

\* The loop of MaintenanceWindowsConfig.Validate from list position i on
\* (the code's index is i - 1).  The error names the window:
\* "window '<name>': ..." if it has a name, "window[<index>]: ..." otherwise.
RECURSIVE ValidateFrom(_, _)
ValidateFrom(windows, i) ==
    IF i > Len(windows) THEN [err |-> "none"]
    ELSE IF Validate(windows[i]) = "none" THEN ValidateFrom(windows, i + 1)
    ELSE IF windows[i].name # ""
    THEN [err |-> "window", by |-> "name", name |-> windows[i].name,
          cause |-> Validate(windows[i])]
    ELSE [err |-> "window", by |-> "index", index |-> i - 1,
          cause |-> Validate(windows[i])]

\* MaintenanceWindowsConfig.Validate
ValidateConfig(m) ==
    IF Len(m.windows) = 0 THEN [err |-> "empty"]
    ELSE ValidateFrom(m.windows, 1)

\* ------------------------------------------------------------ the object
\* Names that may key the data map.  "username" stands for a data entry the
\* user supplies and never lists in the autogenerate annotation; <field>.pub
\* is the entry documented for the public key of a keypair field.
Fields    == {"password", "apikey"}
PubKey(f) == IF f = "password" THEN "password.pub" ELSE "apikey.pub"
AllFields == Fields \cup {"username"} \cup { PubKey(f) : f \in Fields }

\* corev1.Secret as the engine uses it: data, annotations and the
\* resourceVersion the API server compares on Update.
\*   data : [AllFields -> value]                       (NoValue: no entry)
\*   ann  : [autogenerate, generatedAt, rotate, rotateF, type, typeF,
\*           length, lengthF]                          (xF: per-field <key>.<field>)
\*   rv   : resourceVersion

\* parseFields: the comma-separated items, trimmed, the empty ones dropped.
\* The annotation is kept as the sequence of its trimmed items.
parseFields(items) == SelectSeq(items, LAMBDA f : f # "")

\* What a type annotation spells, as the Go string handed to the generator.
StringOf(v) == IF v.k = "text" THEN v.s ELSE "?"

\* SecretReconciler.getAnnotationOrDefault
getAnnotationOrDefault(v, defaultValue) ==
    IF HasValue(v) THEN StringOf(v) ELSE defaultValue

\* SecretReconciler.getFieldType
getFieldType(ann, field, c) ==
    IF HasValue(ann.typeF[field]) THEN StringOf(ann.typeF[field])
    ELSE getAnnotationOrDefault(ann.type, c.defaultType)

\* (variant: any integer is taken as the length)
getLengthAnnotation_AnyInteger(ann, c) ==
    IF HasValue(ann.length) /\ Atoi(ann.length).ok
    THEN Atoi(ann.length).n
    ELSE c.defaultLength

\* SecretReconciler.getLengthAnnotation
getLengthAnnotation(ann, c) ==
    IF HasValue(ann.length) /\ Atoi(ann.length).ok /\ Atoi(ann.length).n > 0
    THEN Atoi(ann.length).n
    ELSE c.defaultLength

\* (variant: the field-specific length annotation is not looked at)
getFieldLength_ObjectWideOnly(ann, field, c) == getLengthAnnotation(ann, c)

\* SecretReconciler.getFieldLength
getFieldLength(ann, field, c) ==
    IF /\ HasValue(ann.lengthF[field])
       /\ Atoi(ann.lengthF[field]).ok
       /\ Atoi(ann.lengthF[field]).n > 0
    THEN Atoi(ann.lengthF[field]).n
    ELSE getLengthAnnotation(ann, c)

\* SecretReconciler.getFieldRotationInterval
getFieldRotationInterval(ann, field) ==
    IF HasValue(ann.rotateF[field]) /\ ParseDuration(ann.rotateF[field]).ok
    THEN ParseDuration(ann.rotateF[field]).d
    ELSE IF HasValue(ann.rotate) /\ ParseDuration(ann.rotate).ok
    THEN ParseDuration(ann.rotate).d
    ELSE 0

\* (variant: a missing timestamp counts as the zero time)
getGeneratedAtTime_ZeroWhenMissing(ann) ==
    IF HasValue(ann.generatedAt) /\ ParseRFC3339(ann.generatedAt).ok
    THEN ParseRFC3339(ann.generatedAt)
    ELSE [ok |-> TRUE, t |-> 0]

\* SecretReconciler.getGeneratedAtTime: [ok |-> FALSE] is the nil pointer.
getGeneratedAtTime(ann) ==
    IF HasValue(ann.generatedAt) /\ ParseRFC3339(ann.generatedAt).ok
    THEN ParseRFC3339(ann.generatedAt)
    ELSE [ok |-> FALSE, t |-> 0]

\* ------------------------------------------------------------- Reconcile
EventWarning == "Warning"
EventNormal  == "Normal"
EventReasonGenerationFailed    == "GenerationFailed"
EventReasonGenerationSucceeded == "GenerationSucceeded"
EventReasonRotationSucceeded   == "RotationSucceeded"
EventReasonRotationFailed      == "RotationFailed"

Event(type, reason, field) == [type |-> type, reason |-> reason, field |-> field]

\* A candidate delay that always replaces the one kept so far.
Earlier_Last(nextRotation, d) == d

\* if nextRotation == nil || d < *nextRotation { nextRotation = &d }
Earlier(nextRotation, d) ==
    IF nextRotation = NoDelay \/ d < nextRotation THEN d ELSE nextRotation

\* (variant: the check does not ask for the generated-at timestamp)
RotationChecked_IgnoresStamp(rotationInterval, generatedAt) ==
    rotationInterval > 0

\* line 163: the rotation check applies to the field
RotationChecked(rotationInterval, generatedAt) ==
    rotationInterval > 0 /\ generatedAt.ok

\* line 165: the interval is below rotation.minInterval
BelowMinInterval(rotationInterval, minInterval) ==
    rotationInterval < minInterval

\* (variant: the boundary is exclusive)
RotationDue_Strict(timeSinceGeneration, rotationInterval) ==
    timeSinceGeneration > rotationInterval

\* (variant: a rotation is due as soon as any time has passed)
RotationDue_AtOnce(timeSinceGeneration, rotationInterval) ==
    timeSinceGeneration >= 0

\* line 175: the rotation is due
RotationDue(timeSinceGeneration, rotationInterval) ==
    timeSinceGeneration >= rotationInterval

\* (variant: a field that has a value is always left alone)
SkipField_ExistsOnly(exists, needsRotation) == exists

\* (variant: a field is left alone only when it has a value and is due)
SkipField_Inverted(exists, needsRotation) == exists /\ needsRotation

\* line 194: the field is left alone
SkipField(exists, needsRotation) == exists /\ ~needsRotation

\* The state of the loop over the fields (lines 146-222): the in-memory
\* data, the flags, the delay found so far, the events recorded, and
\* whether the loop returned early with an error.  `draws` counts the values
\* taken from the random source.
LoopStart(obj) ==
    [ data         |-> obj.data,
      changed      |-> FALSE,
      rotated      |-> FALSE,
      nextRotation |-> NoDelay,
      events       |-> << >>,
      version      |-> obj.rv,
      draws        |-> 0,
      failed       |-> FALSE,
      generatedF   |-> {},
      rotatedF     |-> {},
      refusedF     |-> {},
      skippedF     |-> {},
      failedF      |-> {} ]

\* One iteration of the loop (lines 157-222) for `field`.
FieldStep(acc, field, ann, generatedAt, t, c) ==
    IF acc.failed THEN acc
    ELSE
    LET rotationInterval == getFieldRotationInterval(ann, field)
        checked == RotationChecked(rotationInterval, generatedAt)
        refused == checked /\ BelowMinInterval(rotationInterval, c.minInterval)
        timeSinceGeneration == t - generatedAt.t
        needsRotation ==
            checked /\ ~refused /\ RotationDue(timeSinceGeneration, rotationInterval)
        next ==
            IF checked /\ ~refused /\ ~needsRotation
            THEN Earlier(acc.nextRotation, rotationInterval - timeSinceGeneration)
            ELSE IF rotationInterval > 0 /\ ~generatedAt.ok
            THEN Earlier(acc.nextRotation, rotationInterval)
            ELSE acc.nextRotation
        exists  == acc.data[field] # NoValue
        genType == getFieldType(ann, field, c)
        length  == getFieldLength(ann, field, c)
    IN  IF refused
        THEN [acc EXCEPT
                !.events = Append(@, Event(EventWarning, EventReasonRotationFailed, field)),
                !.refusedF = @ \cup {field}]
        ELSE IF SkipField(exists, needsRotation)
        THEN [acc EXCEPT !.nextRotation = next, !.skippedF = @ \cup {field}]
        ELSE IF ~GenerateOk(genType, length, c.charsetLen)
        THEN [acc EXCEPT
                !.nextRotation = next,
                !.events = Append(@, Event(EventWarning, EventReasonGenerationFailed, field)),
                !.failed = TRUE,
                !.failedF = @ \cup {field}]
        ELSE [acc EXCEPT
                !.nextRotation = next,
                !.data[field] = GenValue(acc.version + 1, acc.draws + 1),
                !.draws = @ + 1,
                !.changed = TRUE,
                !.rotated = IF needsRotation THEN TRUE ELSE @,
                !.generatedF = IF needsRotation THEN @ ELSE @ \cup {field},
                !.rotatedF = IF needsRotation THEN @ \cup {field} ELSE @]

\* (variant: only the first listed field is evaluated)
FieldLoop_FirstOnly(acc, fields, ann, generatedAt, t, c) ==
    IF fields = << >> THEN acc
    ELSE FieldStep(acc, Head(fields), ann, generatedAt, t, c)

\* The loop over the fields in list order.
RECURSIVE FieldLoop(_, _, _, _, _, _)
FieldLoop(acc, fields, ann, generatedAt, t, c) ==
    IF fields = << >> THEN acc
    ELSE CHOOSE r \in { FieldLoop(a, Tail(fields), ann, generatedAt, t, c) :
                         a \in {FieldStep(acc, Head(fields), ann, generatedAt, t, c)} } :
             TRUE

\* Lines 126-222 on the object read: the early returns and the loop.
Evaluate(obj, t, c) ==
    LET fields == parseFields(obj.ann.autogenerate)
    IN  IF fields = << >> THEN LoopStart(obj)
        ELSE FieldLoop(LoopStart(obj), fields, obj.ann,
                       getGeneratedAtTime(obj.ann), t, c)

\* (variant: the object is written back in every cycle)
ShouldUpdate_Always(acc) == TRUE

\* line 225: the object is written back
ShouldUpdate(acc) == acc.changed

\* (variant: the timestamp is not refreshed)
Mutated_DataOnly(obj, acc, t) == [obj EXCEPT !.data = acc.data]

\* (variant: a usable timestamp is left as it is)
Mutated_KeepsStamp(obj, acc, t) ==
    [obj EXCEPT !.data = acc.data,
                !.ann.generatedAt =
                    IF getGeneratedAtTime(obj.ann).ok THEN @ ELSE FormatRFC3339(t)]

\* (variant: the write drops the object-wide rotate annotation)
Mutated_DropsRotate(obj, acc, t) ==
    [obj EXCEPT !.data = acc.data, !.ann.generatedAt = FormatRFC3339(t),
                !.ann.rotate = Absent]

\* Lines 227-230: the object handed to Update.
Mutated(obj, acc, t) ==
    [obj EXCEPT !.data = acc.data, !.ann.generatedAt = FormatRFC3339(t)]

\* (variant: the delay is not recomputed after a write)
AfterWrite_Unchanged(nextRotation, fields, ann) == nextRotation

\* Lines 251-260: after a write, the smallest configured interval.
RECURSIVE AfterWrite(_, _, _)
AfterWrite(nextRotation, fields, ann) ==
    IF fields = << >> THEN nextRotation
    ELSE LET rotationInterval == getFieldRotationInterval(ann, Head(fields))
         IN  AfterWrite(IF rotationInterval > 0
                        THEN Earlier(nextRotation, rotationInterval)
                        ELSE nextRotation,
                        Tail(fields), ann)

\* (variant: the rotation event is recorded whatever rotation.createEvents
\* says)
SuccessEvents_IgnoresSwitch(acc, c) ==
    IF acc.rotated
    THEN << Event(EventNormal, EventReasonRotationSucceeded, "") >>
    ELSE << Event(EventNormal, EventReasonGenerationSucceeded, "") >>

\* Lines 239-249: the success event, if any.
SuccessEvents(acc, c) ==
    IF acc.rotated
    THEN IF c.createEvents
         THEN << Event(EventNormal, EventReasonRotationSucceeded, "") >>
         ELSE << >>
    ELSE << Event(EventNormal, EventReasonGenerationSucceeded, "") >>

\* ------------------------------------------------------ the configuration
\* config.Config as the engine reads it (set at process start, read-only).
DefaultLength == 32
AlphanumericCharsetLen == 62
DefaultMinIntervalMinutes == 5

WeekendNight ==
    [ name |-> "weekend-night", days |-> <<"saturday", "sunday">>,
      startTime |-> [h |-> 3, m |-> 0], endTime |-> [h |-> 5, m |-> 0],
      timezone |-> "UTC" ]
WeekdayMaintenance ==
    [ name |-> "weekday-maintenance", days |-> <<"wednesday">>,
      startTime |-> [h |-> 2, m |-> 0], endTime |-> [h |-> 4, m |-> 0],
      timezone |-> "Europe/Berlin" ]

\* config.NewDefaultConfig: events on rotation off, windows disabled.
DefaultWindows == [enabled |-> FALSE, windows |-> <<WeekendNight>>]
EnabledWindows == [enabled |-> TRUE, windows |-> <<WeekendNight, WeekdayMaintenance>>]

ConfigWith(createEvents, maintenanceWindows) ==
    [ defaultType   |-> TypeString,
      defaultLength |-> DefaultLength,
      charsetLen    |-> AlphanumericCharsetLen,
      minInterval   |-> DefaultMinIntervalMinutes * Minute,
      createEvents  |-> createEvents,
      maintenanceWindows |-> maintenanceWindows ]

Configs == { ConfigWith(FALSE, DefaultWindows), ConfigWith(TRUE, EnabledWindows) }

\* ------------------------------------------------------------- the bounds
\* Steps of the environment (clock advances, foreign edits) in one behaviour.
MaxSteps == 2

TickSteps == {Hour}

\* Clock readings a behaviour starts at: a tick after Monday 12:00:00 UTC
\* (outside every window, not a whole second), Saturday 04:00 UTC (inside
\* weekend-night), Wednesday 01:30 UTC = 02:30 in Berlin (inside
\* weekday-maintenance only through the zone conversion).
StartTimes ==
    { Day + 12 * Hour + 1,
      6 * Day + 4 * Hour,
      3 * Day + Hour + 30 * Minute }

Workers == {"w1", "w2"}
NoWake  == 0 - 1

\* ----------------------------------------------------------------- state
VARIABLES
    secret,   \* the object as stored by the API server
    cfg,      \* the process configuration
    now,      \* the clock
    inv,      \* per worker: the Reconcile invocation in progress
    wake,     \* when the work queue re-delivers the request (RequeueAfter)
    last,     \* what the invocation that just returned did
    hist,     \* history: the initial generated-at, the writes so far
    steps,    \* steps of the environment so far
    probe     \* the last call of a function of the packages, with its result

vars == <<secret, cfg, now, inv, wake, last, hist, steps, probe>>

NoProbe == [op |-> "none"]

NoSnap == [k |-> "none"]
Idle   == [pc |-> "idle", snap |-> NoSnap]
NoCycle == [valid |-> FALSE]

\* The items of the autogenerate annotation: absent, "password,apikey",
\* "apikey,,password".
AutogenerateCases ==
    { << >>,
      <<"password", "apikey">>,
      <<"apikey", "", "password">> }

\* <<rotate, rotate.password>>: no rotation; both fields every 2h; password
\* every hour and apikey every 2h; password below the minimum, with and
\* without an interval for apikey; an unparseable object-wide value under a
\* field-specific one.
RotateCases ==
    { <<Absent, Absent>>,
      <<DurStr(2, "h"), Absent>>,
      <<DurStr(2, "h"), DurStr(1, "h")>>,
      <<DurStr(2, "h"), DurStr(1, "m")>>,
      <<Absent, DurStr(1, "m")>>,
      <<Text("soon"), DurStr(1, "h")>> }

InitialAnnotations(t) ==
    { [ autogenerate |-> ag,
        generatedAt  |-> ga,
        rotate       |-> ro[1],
        rotateF      |-> [f \in Fields |-> IF f = "password" THEN ro[2] ELSE Absent],
        type         |-> Absent,
        typeF        |-> [f \in Fields |-> IF f = "apikey" THEN ta ELSE Absent],
        length       |-> Absent,
        lengthF      |-> [f \in Fields |-> Absent] ] :
      ag \in AutogenerateCases,
      ga \in {Absent, Text("yesterday"), Stamp((t - Hour) \div TicksPerSecond)},
      ro \in RotateCases,
      ta \in {Absent, Text(TypeRSA)} }

InitialData ==
    { [f \in AllFields |-> IF f = "username" THEN UserValue(0)
                           ELSE IF f = "password" THEN p
                           ELSE IF f = "apikey" THEN a ELSE NoValue] :
      p \in {NoValue, UserValue(0)}, a \in {NoValue, UserValue(0)} }

Init ==
    /\ now \in StartTimes
    /\ cfg \in Configs
    /\ \E d \in InitialData, a \in InitialAnnotations(now) :
          secret = [data |-> d, ann |-> a, rv |-> 0]
    /\ inv = [w \in Workers |-> Idle]
    /\ wake = NoWake
    /\ last = NoCycle
    /\ hist = [ga0 |-> secret.ann.generatedAt, wrote |-> FALSE, lastWrite |-> NoWake]
    /\ steps = 0
    /\ probe = NoProbe

\* --------------------------------------------------------------- actions
\* (variant: a failed generation does not end the invocation)
Aborted_Never(acc) == FALSE

\* Line 209: the invocation returns the generation error from inside the loop.
Aborted(acc) == acc.failed

\* (variant: the success event is recorded before the result of the write is
\* looked at)
EmitsSuccess_BeforeUpdate(attempted, written) == attempted

\* Lines 233-249: the success events follow the return on a failed r.Update.
EmitsSuccess(attempted, written) == written

\* (variant: the API server does not compare resourceVersions)
UpdateSucceeds_IgnoresVersion(obj, stored, transportOk) == transportOk

\* (variant: a write the transport lost is stored all the same)
UpdateSucceeds_IgnoresTransport(obj, stored, transportOk) == obj.rv = stored.rv

\* r.Update (line 233): the API server accepts the write only if the object
\* still has the resourceVersion that was read and the transport delivers it.
UpdateSucceeds(obj, stored, transportOk) ==
    transportOk /\ obj.rv = stored.rv

\* Lines 126-269 on the object `obj` read by r.Get while the API server
\* holds `stored`: evaluate the fields, write the object back if anything
\* changed, report the delay.  The record tells what the invocation did.
OutcomeAfter(acc, obj, stored, t, c, transportOk) ==
    LET fields == parseFields(obj.ann.autogenerate)
        attempted == ~Aborted(acc) /\ ShouldUpdate(acc)
        written   == attempted /\ UpdateSucceeds(obj, stored, transportOk)
        err    == IF Aborted(acc) THEN "generate"
                  ELSE IF attempted /\ ~written THEN "update"
                  ELSE "none"
    IN  [ valid     |-> TRUE,
          t         |-> t,
          read      |-> obj,
          stored    |-> stored,
          after     |-> IF written
                        THEN [Mutated(obj, acc, t) EXCEPT !.rv = stored.rv + 1]
                        ELSE stored,
          acc       |-> acc,
          attempted |-> attempted,
          written   |-> written,
          delivered |-> transportOk,
          err       |-> err,
          requeue   |-> IF err # "none" THEN NoDelay
                        ELSE IF written
                        THEN AfterWrite(acc.nextRotation, fields, obj.ann)
                        ELSE acc.nextRotation,
          events    |-> IF EmitsSuccess(attempted, written)
                        THEN acc.events \o SuccessEvents(acc, c)
                        ELSE acc.events ]

Outcome(obj, stored, t, c, transportOk) ==
    CHOOSE o \in { OutcomeAfter(acc, obj, stored, t, c, transportOk) :
                    acc \in {Evaluate(obj, t, c)} } : TRUE

\* What an invocation's return leaves behind: the stored object, the
\* request re-queued after the delay, the history.
Returned(o) ==
    /\ secret' = o.after
    /\ wake' = IF o.requeue # NoDelay THEN o.t + o.requeue ELSE NoWake
    /\ hist' = IF o.written
               THEN [hist EXCEPT !.wrote = TRUE, !.lastWrite = o.t]
               ELSE hist
    /\ last' = o

\* One invocation of Reconcile, start to return, on the stored object.
\* transportOk: whether r.Update gets through, if it is called.
Reconcile(transportOk) ==
    /\ \A w \in Workers : inv[w].pc = "idle"
    /\ LET o == Outcome(secret, secret, now, cfg, transportOk)
       IN  /\ (~o.attempted) => transportOk
           /\ Returned(o)
    /\ UNCHANGED <<cfg, now, inv, steps, probe>>

\* The work queue re-delivers the request once RequeueAfter has elapsed,
\* and Reconcile runs.
Requeue(transportOk) ==
    /\ \A w \in Workers : inv[w].pc = "idle"
    /\ wake # NoWake
    /\ wake > now
    /\ steps < MaxSteps
    /\ now' = wake
    /\ steps' = steps + 1
    /\ LET o == Outcome(secret, secret, wake, cfg, transportOk)
       IN  /\ (~o.attempted) => transportOk
           /\ Returned(o)
    /\ UNCHANGED <<cfg, inv, probe>>

\* r.Get (line 121) of an invocation that other invocations and edits may
\* overlap: the worker reads the stored object.
Get(w) ==
    /\ inv[w].pc = "idle"
    /\ inv' = [inv EXCEPT ![w] = [pc |-> "read", snap |-> secret]]
    /\ last' = NoCycle
    /\ UNCHANGED <<secret, cfg, now, wake, hist, steps, probe>>

\* The rest of that invocation, on the object it read.
Finish(w, transportOk) ==
    /\ inv[w].pc = "read"
    /\ LET o == Outcome(inv[w].snap, secret, now, cfg, transportOk)
       IN  /\ (~o.attempted) => transportOk
           /\ Returned(o)
    /\ inv' = [inv EXCEPT ![w] = Idle]
    /\ UNCHANGED <<cfg, now, steps, probe>>

\* The clock advances.
Tick ==
    /\ steps < MaxSteps
    /\ \E d \in TickSteps : now' = now + d
    /\ steps' = steps + 1
    /\ last' = NoCycle
    /\ UNCHANGED <<secret, cfg, inv, wake, hist, probe>>

\* Somebody else removes a field from data (kubectl edit).
UserDelete(f) ==
    /\ steps < MaxSteps
    /\ secret.data[f] # NoValue
    /\ secret' = [secret EXCEPT !.data[f] = NoValue, !.rv = @ + 1]
    /\ steps' = steps + 1
    /\ last' = NoCycle
    /\ UNCHANGED <<cfg, now, inv, wake, hist, probe>>

\* Somebody else sets or changes a field's value.
UserSet(f) ==
    /\ steps < MaxSteps
    /\ secret.data[f] # UserValue(1)
    /\ secret' = [secret EXCEPT !.data[f] = UserValue(1), !.rv = @ + 1]
    /\ steps' = steps + 1
    /\ last' = NoCycle
    /\ UNCHANGED <<cfg, now, inv, wake, hist, probe>>

Next ==
    \/ \E ok \in BOOLEAN : Reconcile(ok)
    \/ \E ok \in BOOLEAN : Requeue(ok)
    \/ Tick
    \/ \E f \in Fields : UserDelete(f)
    \/ \E f \in Fields : UserSet(f)

Spec == Init /\ [][Next]_vars

\* ------------------------------------------------ the cascade, called
\* Values the annotations of the three cascades may hold: absent, empty,
\* valid, and present but not valid (a length that is no positive integer,
\* a duration that does not parse).
CascadeAnnotations ==
    { [ autogenerate |-> <<"password", "apikey">>,
        generatedAt  |-> Absent,
        rotate       |-> ro,
        rotateF      |-> [f \in Fields |-> IF f = "password" THEN rf ELSE Absent],
        type         |-> ty,
        typeF        |-> [f \in Fields |-> IF f = "password" THEN tf ELSE Absent],
        length       |-> le,
        lengthF      |-> [f \in Fields |-> IF f = "password" THEN lf ELSE Absent] ] :
      ty \in {Absent, EmptyStr, Text(TypeBytes)},
      tf \in {Absent, EmptyStr, Text(TypeRSA)},
      le \in {Absent, EmptyStr, IntStr(16), IntStr(0), Text("long")},
      lf \in {Absent, EmptyStr, IntStr(24), IntStr(0 - 8), Text("long")},
      ro \in {Absent, EmptyStr, DurStr(2, "h"), Text("soon")},
      rf \in {Absent, EmptyStr, DurStr(1, "d"), DurStr(1, "w"), DurStr(0, "s"),
              Text("weekly")} }

InitCascade ==
    /\ now = Day + 12 * Hour + 1
    /\ cfg = ConfigWith(FALSE, DefaultWindows)
    /\ \E a \in CascadeAnnotations :
          secret = [data |-> [f \in AllFields |-> NoValue], ann |-> a, rv |-> 0]
    /\ inv = [w \in Workers |-> Idle]
    /\ wake = NoWake
    /\ last = NoCycle
    /\ hist = [ga0 |-> Absent, wrote |-> FALSE, lastWrite |-> NoWake]
    /\ steps = 0
    /\ probe = NoProbe

\* Lines 200-201 and 161: the three getters called for one field.
Resolve(f) ==
    /\ probe' = [ op       |-> "resolve",
                  field    |-> f,
                  type     |-> getFieldType(secret.ann, f, cfg),
                  length   |-> getFieldLength(secret.ann, f, cfg),
                  interval |-> getFieldRotationInterval(secret.ann, f) ]
    /\ UNCHANGED <<secret, cfg, now, inv, wake, last, hist, steps>>

\* The getters alone, and the cycle that uses what they return.
NextCascade ==
    \/ \E f \in Fields : Resolve(f)
    \/ Reconcile(TRUE)

SpecCascade == InitCascade /\ [][NextCascade]_vars

\* ------------------------------------------ the window evaluator, called
\* Windows next to those of the configurations above: one that overlaps
\* weekend-night, one whose day in Berlin is not the day in UTC.
SaturdayLate ==
    [ name |-> "saturday-late", days |-> <<"saturday">>,
      startTime |-> [h |-> 4, m |-> 0], endTime |-> [h |-> 6, m |-> 0],
      timezone |-> "UTC" ]
BerlinMidnight ==
    [ name |-> "berlin-midnight", days |-> <<"wednesday">>,
      startTime |-> [h |-> 0, m |-> 0], endTime |-> [h |-> 1, m |-> 0],
      timezone |-> "Europe/Berlin" ]

WindowLists ==
    { << >>,
      <<WeekendNight>>,
      <<WeekendNight, WeekdayMaintenance>>,
      <<WeekdayMaintenance, WeekendNight>>,
      <<WeekendNight, SaturdayLate>>,
      <<SaturdayLate, WeekendNight>>,
      <<BerlinMidnight, WeekdayMaintenance>> }

\* The configurations the evaluator is called on, built as the tests build
\* them.
WindowConfigs ==
    { ConfigWith(FALSE, [enabled |-> e, windows |-> ws]) :
        e \in BOOLEAN, ws \in WindowLists }

\* Times around the hours the windows begin and end at, on the days before,
\* of and after theirs: the first and the last minute of the hour, at its
\* first instant and one tick later.
ProbeTimes ==
    { d * Day + h * Hour + m * Minute + e :
        d \in {0, 2, 3, 5, 6}, h \in {0, 1, 2, 3, 4, 5, 6, 23}, m \in {0, 59}, e \in {0, 1} }

\* A Secret the operator has nothing to do with.
PlainSecret ==
    [ data |-> [f \in AllFields |-> NoValue],
      ann  |-> [ autogenerate |-> << >>,
                 generatedAt  |-> Absent,
                 rotate       |-> Absent,
                 rotateF      |-> [f \in Fields |-> Absent],
                 type         |-> Absent,
                 typeF        |-> [f \in Fields |-> Absent],
                 length       |-> Absent,
                 lengthF      |-> [f \in Fields |-> Absent] ],
      rv   |-> 0 ]

InitWindows ==
    /\ now \in ProbeTimes
    /\ cfg \in WindowConfigs
    /\ secret = PlainSecret
    /\ inv = [w \in Workers |-> Idle]
    /\ wake = NoWake
    /\ last = NoCycle
    /\ hist = [ga0 |-> Absent, wrote |-> FALSE, lastWrite |-> NoWake]
    /\ steps = 0
    /\ probe = NoProbe

CallIsInWindow(i) ==
    /\ i \in 1..Len(cfg.maintenanceWindows.windows)
    /\ probe' = [op |-> "IsInWindow", i |-> i,
                 result |-> IsInWindow(cfg.maintenanceWindows.windows[i], now)]
    /\ UNCHANGED <<secret, cfg, now, inv, wake, last, hist, steps>>

CallIsInAnyWindow ==
    /\ probe' = [op |-> "IsInAnyWindow",
                 result |-> IsInAnyWindow(cfg.maintenanceWindows, now)]
    /\ UNCHANGED <<secret, cfg, now, inv, wake, last, hist, steps>>

CallGetActiveWindow ==
    /\ probe' = [op |-> "GetActiveWindow",
                 result |-> GetActiveWindow(cfg.maintenanceWindows, now)]
    /\ UNCHANGED <<secret, cfg, now, inv, wake, last, hist, steps>>

CallNextWindowStart ==
    /\ probe' = [op |-> "NextWindowStart",
                 result |-> NextWindowStart(cfg.maintenanceWindows, now)]
    /\ UNCHANGED <<secret, cfg, now, inv, wake, last, hist, steps>>

\* NextStart of a window of the list, as configured or with no day left in
\* its day list.
CallNextStart(i) ==
    /\ i \in 1..Len(cfg.maintenanceWindows.windows)
    /\ \E w \in { cfg.maintenanceWindows.windows[i],
                  [cfg.maintenanceWindows.windows[i] EXCEPT !.days = << >>] } :
          probe' = [op |-> "NextStart", w |-> w, result |-> NextStart(w, now)]
    /\ UNCHANGED <<secret, cfg, now, inv, wake, last, hist, steps>>

CallDurationUntilNextWindow ==
    /\ probe' = [op |-> "DurationUntilNextWindow",
                 result |-> DurationUntilNextWindow(cfg.maintenanceWindows, now)]
    /\ UNCHANGED <<secret, cfg, now, inv, wake, last, hist, steps>>

NextWindows ==
    \/ \E i \in 1..2 : CallIsInWindow(i)
    \/ CallIsInAnyWindow
    \/ CallGetActiveWindow
    \/ CallNextWindowStart
    \/ \E i \in 1..2 : CallNextStart(i)
    \/ CallDurationUntilNextWindow

SpecWindows == InitWindows /\ [][NextWindows]_vars

\* ------------------------------------------------ window validation, called
\* Window definitions as the configuration file gives them, before
\* validation: day names and time strings as written.
WindowDefinitions ==
    { [ name |-> n, days |-> d, startTime |-> s, endTime |-> e, timezone |-> z ] :
        n \in {"weekend-night", ""},
        d \in { <<"saturday", "sunday">>, <<"Saturday">>,
                <<" sunday ", "WEDNESDAY">>, << >>, <<"funday">>,
                <<"saturday", "">> },
        s \in { HHMM(3, 0), HHMM(0, 0), HHMM(24, 0), HHMM(3, 60), HHMM(0 - 1, 0),
                << >>, <<Part(TRUE, 12, "")>>, <<Part(FALSE, 0, "12-30")>>,
                <<Part(TRUE, 12, ""), Part(TRUE, 30, ""), Part(TRUE, 45, "")>>,
                <<Part(FALSE, 0, "ab"), Part(TRUE, 30, "")>>,
                <<Part(TRUE, 3, ""), Part(FALSE, 0, "cd")>>,
                <<Part(TRUE, 3, ""), Part(TRUE, 0, "abc")>>,
                <<Part(TRUE, 3, "h"), Part(TRUE, 0, "")>> },
        e \in { HHMM(5, 0), HHMM(3, 0), HHMM(2, 59), HHMM(23, 59), HHMM(25, 0),
                << >>, <<Part(TRUE, 5, ""), Part(TRUE, 0, " pm")>> },
        z \in {"UTC", "Europe/Berlin", "", "Mars/Olympus"} }

\* Lists of them: empty, of one, and of two with a valid window or with a
\* named or unnamed invalid one in front.
DefinitionLists ==
    LET good == [ name |-> "weekday-maintenance", days |-> <<"wednesday">>,
                  startTime |-> HHMM(2, 0), endTime |-> HHMM(4, 0),
                  timezone |-> "Europe/Berlin" ]
        bad  == { [good EXCEPT !.name = n, !.endTime = e] :
                    n \in {"broken", ""}, e \in {HHMM(2, 0), HHMM(4, 60)} }
    IN  { << >> } \cup { <<w>> : w \in WindowDefinitions }
          \cup { <<good, w>> : w \in WindowDefinitions }
          \cup { <<b, w>> : b \in bad,
                            w \in { x \in WindowDefinitions :
                                      /\ x.days \in {<<"Saturday">>, << >>}
                                      /\ x.timezone \in {"UTC", ""} } }

InitValidate ==
    /\ now = 0
    /\ cfg \in { ConfigWith(FALSE, [enabled |-> TRUE, windows |-> ws]) :
                   ws \in DefinitionLists }
    /\ secret = PlainSecret
    /\ inv = [w \in Workers |-> Idle]
    /\ wake = NoWake
    /\ last = NoCycle
    /\ hist = [ga0 |-> Absent, wrote |-> FALSE, lastWrite |-> NoWake]
    /\ steps = 0
    /\ probe = NoProbe

CallValidate(i) ==
    /\ i \in 1..Len(cfg.maintenanceWindows.windows)
    /\ probe' = [op |-> "Validate", i |-> i,
                 result |-> Validate(cfg.maintenanceWindows.windows[i])]
    /\ UNCHANGED <<secret, cfg, now, inv, wake, last, hist, steps>>

CallValidateConfig ==
    /\ probe' = [op |-> "ValidateConfig",
                 result |-> ValidateConfig(cfg.maintenanceWindows)]
    /\ UNCHANGED <<secret, cfg, now, inv, wake, last, hist, steps>>

NextValidate ==
    \/ \E i \in 1..2 : CallValidate(i)
    \/ CallValidateConfig

SpecValidate == InitValidate /\ [][NextValidate]_vars

\* ------------------------------------------------- the generator, called
\* len(charset): the empty charset, AlphanumericCharset, DefaultCharset.
CharsetLens == {0, AlphanumericCharsetLen, 94}

\* A generator built with a default charset, and the type and length a
\* caller is about to ask for (kept as the configuration's defaults).
InitGenerate ==
    /\ now = 0
    /\ cfg \in { [ConfigWith(FALSE, DefaultWindows)
                    EXCEPT !.defaultType = ty, !.defaultLength = n,
                           !.charsetLen = c] :
                   ty \in {"", TypeString, TypeBytes, TypeRSA, TypeECDSA,
                           TypeEd25519, "unknown", "hex"},
                   n \in {0 - 1, 0, 1, 16, 32, 64},
                   c \in CharsetLens }
    /\ secret = PlainSecret
    /\ inv = [w \in Workers |-> Idle]
    /\ wake = NoWake
    /\ last = NoCycle
    /\ hist = [ga0 |-> Absent, wrote |-> FALSE, lastWrite |-> NoWake]
    /\ steps = 0
    /\ probe = NoProbe

\* The (string, error) pair returned: ok for a nil error, and the value.
CallGenerate ==
    /\ \E ok \in {GenerateOk(cfg.defaultType, cfg.defaultLength, cfg.charsetLen)} :
          probe' = [op |-> "Generate", charsetLen |-> cfg.charsetLen,
                    result |-> [ok |-> ok,
                                value |-> IF ok THEN GenValue(1, 1) ELSE NoValue]]
    /\ UNCHANGED <<secret, cfg, now, inv, wake, last, hist, steps>>

CallGenerateWithCharset(charsetLen) ==
    /\ \E ok \in {GenerateWithCharsetOk(cfg.defaultType, cfg.defaultLength, charsetLen)} :
          probe' = [op |-> "GenerateWithCharset", charsetLen |-> charsetLen,
                    result |-> [ok |-> ok,
                                value |-> IF ok THEN GenValue(1, 1) ELSE NoValue]]
    /\ UNCHANGED <<secret, cfg, now, inv, wake, last, hist, steps>>

\* GenerateStringWithCharset on the charsets "", "a", "ab12",
\* AlphanumericCharset, DefaultCharset and the two-character "aé" (three
\* bytes), with the bytes rand.Read delivers: byte i is s + (i-1)*d mod 256.
CallGenerateStringWithCharset ==
    /\ \E charset \in { << >>, <<1>>, <<1, 1, 1, 1>>, <<1, 2, 2>>,
                        [p \in 1..AlphanumericCharsetLen |-> 1],
                        [p \in 1..94 |-> 1] },
          s \in {0, 61, 62, 255}, d \in {0, 1, 97} :
          \E randomBytes \in { [i \in 1..Max(cfg.defaultLength, 0)
                                  |-> (s + (i - 1) * d) % 256] } :
             probe' = [op |-> "GenerateStringWithCharset",
                       length |-> cfg.defaultLength,
                       charset |-> charset,
                       randomBytes |-> randomBytes,
                       result |-> GenerateStringWithCharset(
                                      cfg.defaultLength, charset, randomBytes)]
    /\ UNCHANGED <<secret, cfg, now, inv, wake, last, hist, steps>>

NextGenerate ==
    \/ CallGenerate
    \/ CallGenerateStringWithCharset
    \/ \E c \in CharsetLens : CallGenerateWithCharset(c)

SpecGenerate == InitGenerate /\ [][NextGenerate]_vars


\* ------------------------------------- the evaluator across a clock change
\* The evaluator asked about a window that begins at 02:00 on Sundays in New
\* York, alone or next to weekend-night, at times of the Sunday before the
\* clocks go forward, of the Saturday, Sunday and Monday around the change,
\* and of the Sunday after it: 03:00 to 08:59 UTC, 22:00 to 04:59 local.
InitZones ==
    /\ now \in { d * Day + h * Hour + m * Minute + e :
                   d \in {0, 6, 7, 8, 14}, h \in {3, 5, 6, 7, 8},
                   m \in {0, 59}, e \in {0, 1} }
    /\ \E e \in BOOLEAN,
          ws \in { <<w>> \o rest :
                     w \in { [ name |-> "sunday-early", days |-> <<"sunday">>,
                               startTime |-> [h |-> 2, m |-> 0],
                               endTime |-> [h |-> 3, m |-> 0],
                               timezone |-> "America/New_York" ] },
                     rest \in { << >>, <<WeekendNight>> } } :
          cfg = ConfigWith(FALSE, [enabled |-> e, windows |-> ws])
    /\ secret = PlainSecret
    /\ inv = [w \in Workers |-> Idle]
    /\ wake = NoWake
    /\ last = NoCycle
    /\ hist = [ga0 |-> Absent, wrote |-> FALSE, lastWrite |-> NoWake]
    /\ steps = 0
    /\ probe = NoProbe

SpecZones == InitZones /\ [][NextWindows]_vars

\* ------------------------------------------- overlapping invocations
\* Two workers (two replicas, or a retry overlapping a delivery) run
\* Reconcile on the same object: each reads with r.Get and finishes later on
\* what it read, while the clock advances and a user may remove a value.
NextConc ==
    \/ \E w \in Workers : Get(w)
    \/ \E w \in Workers, ok \in BOOLEAN : Finish(w, ok)
    \/ Tick
    \/ \E f \in Fields : UserDelete(f)

\* The object is looked at on a Monday noon, under the configuration with
\* windows and rotation events; it lists fields of types the generator
\* serves, and its generated-at, if any, parses.
InitConc ==
    /\ Init
    /\ now = Day + 12 * Hour + 1
    /\ cfg = ConfigWith(TRUE, EnabledWindows)
    /\ secret.ann.typeF["apikey"] = Absent
    /\ secret.ann.autogenerate # << >>
    /\ secret.ann.generatedAt # Text("yesterday")

SpecConc == InitConc /\ [][NextConc]_vars

\* --------------------------------------------------- the requeue loop
\* The caller re-invokes the engine after each delay it returns, and nobody
\* else touches the object.  The clock and the resourceVersion grow without
\* bound, but what the engine does depends only on differences of times, on
\* the civil time of week of `now`, and on resourceVersions being equal or
\* not: a behaviour shifted by a whole week, or with versions renamed, is a
\* behaviour again.  The loop keeps the representative with now < 2 weeks
\* and the version counted modulo 2.
WeekShift(t) == IF t >= 2 * Week THEN Week ELSE 0

Representative(obj, shift) ==
    [obj EXCEPT
       !.rv = @ % 2,
       !.ann.generatedAt =
           IF @.k = "ts" THEN Stamp(@.sec - shift \div TicksPerSecond) ELSE @]

\* The work queue delivers the request at the time asked for; r.Update gets
\* through.  probe tells a delivery asked for by the previous cycle's delay
\* ("requeued") from the first one ("queued").
Serve ==
    /\ wake # NoWake
    /\ \E o \in {Outcome(secret, secret, wake, cfg, TRUE)}, shift \in {WeekShift(wake)} :
           /\ now' = wake - shift
           /\ secret' = Representative(o.after, shift)
           /\ wake' = IF o.requeue # NoDelay THEN wake + o.requeue - shift ELSE NoWake
           /\ hist' = [hist EXCEPT
                         !.wrote = @ \/ o.written,
                         !.lastWrite = IF o.written THEN wake - shift
                                       ELSE IF @ = NoWake THEN @ ELSE @ - shift]
           /\ last' = o
           /\ probe' = [op |-> IF last.valid THEN "requeued" ELSE "queued"]
    /\ UNCHANGED <<cfg, inv, steps>>

\* The object has just been created or changed: the request is queued, every
\* type is one the generator serves, and no interval is one the engine
\* refuses.
InitLive ==
    /\ now = Day + 12 * Hour + 1
    /\ cfg \in Configs
    /\ \E d \in InitialData, a \in InitialAnnotations(now) :
          /\ a.autogenerate = <<"password", "apikey">>
          /\ a.typeF["apikey"] = Absent
          /\ \A f \in Fields :
                 \/ getFieldRotationInterval(a, f) = 0
                 \/ ~BelowMinInterval(getFieldRotationInterval(a, f), cfg.minInterval)
          /\ secret = [data |-> d, ann |-> a, rv |-> 0]
    /\ inv = [w \in Workers |-> Idle]
    /\ wake = now
    /\ last = NoCycle
    /\ hist = [ga0 |-> secret.ann.generatedAt, wrote |-> FALSE, lastWrite |-> NoWake]
    /\ steps = 0
    /\ probe = NoProbe

SpecLive == InitLive /\ [][Serve]_vars /\ WF_vars(Serve)

\* ============================================================ properties
\* What the invocation that just returned (last) read and decided.
ListedFields == { f \in Fields :
                    \E i \in 1..Len(last.read.ann.autogenerate) :
                        last.read.ann.autogenerate[i] = f }
Interval(f)  == getFieldRotationInterval(last.read.ann, f)
StampRead    == getGeneratedAtTime(last.read.ann)
Elapsed      == last.t - StampRead.t
HadValue(f)  == last.read.data[f] # NoValue
Evaluated(f) == f \in (last.acc.refusedF \cup last.acc.skippedF \cup last.acc.generatedF
                        \cup last.acc.rotatedF \cup last.acc.failedF)
DueByTime(f) == Interval(f) > 0 /\ StampRead.ok /\ Elapsed >= Interval(f)
AboveMinimum(f) == Interval(f) >= cfg.minInterval
WindowsAccept == IsInAnyWindow(cfg.maintenanceWindows, last.t)
WarningsFor(f) ==
    Cardinality({ i \in 1..Len(last.events) :
                    last.events[i] = Event(EventWarning, EventReasonRotationFailed, f) })
ValueKept(f) == last.after.data[f] = last.stored.data[f]
StampKept    == last.after.ann.generatedAt = last.stored.ann.generatedAt

\* ------------------------------------------------------------------- C1
\* C1: in every cycle whose generations and write succeed, each listed
\* field that had no value in data has one afterwards, whatever the window
\* state and the field's rotation configuration.
C1_InitialGenerationNeverDeferred ==
    (last.valid /\ last.err = "none") =>
        \A f \in ListedFields : ~HadValue(f) => last.after.data[f] # NoValue

\* ------------------------------------------------------------------- C2
\* C2: a field with a value whose rotation is due, evaluated with windows
\* enabled and now outside every window, keeps its value, and generated-at
\* stays as it was unless another field is generated in the cycle.
C2_DueRotationDeferredOutsideWindows ==
    last.valid =>
        \A f \in ListedFields :
            ( /\ HadValue(f)
              /\ DueByTime(f)
              /\ AboveMinimum(f)
              /\ cfg.maintenanceWindows.enabled
              /\ ~WindowsAccept )
            => /\ ValueKept(f)
               /\ (last.acc.generatedF = {} => StampKept)

C4_BelowMinimumWarnsEveryCycle_Original ==
    last.valid =>
        \A f \in ListedFields :
            (Interval(f) > 0 /\ ~AboveMinimum(f))
            => /\ f \notin last.acc.rotatedF
               /\ (HadValue(f) => ValueKept(f))
               /\ (Evaluated(f) => WarningsFor(f) = 1)

\* C4 (amended): ... is never rotated; a cycle that evaluates it raises one
\* RotationFailed warning for it when generated-at is present and parses,
\* and none when generated-at is absent or does not parse.
C4_BelowMinimumNeverRotates ==
    last.valid =>
        \A f \in ListedFields :
            (Interval(f) > 0 /\ ~AboveMinimum(f))
            => /\ f \notin last.acc.rotatedF
               /\ (HadValue(f) => ValueKept(f))
               /\ (Evaluated(f) =>
                     WarningsFor(f) = IF StampRead.ok THEN 1 ELSE 0)

\* A field below the minimum, long overdue, was refused with one warning in
\* a cycle that rotated another field.
C4_Witness ==
    /\ last.valid
    /\ last.acc.rotatedF # {}
    /\ \E f \in ListedFields :
          /\ Interval(f) > 0 /\ ~AboveMinimum(f) /\ HadValue(f)
          /\ DueByTime(f) /\ WarningsFor(f) = 1

\* ------------------------------------------------------------------- C5
\* C5: a field that has a value is regenerated only if a positive interval
\* is configured, generated-at is present and now - generated-at >= interval;
\* elapsed = interval is due; in every other case the field is not touched.
C5_RotationOnlyWhenDue ==
    last.valid =>
        \A f \in ListedFields :
            HadValue(f) =>
                /\ (f \in last.acc.rotatedF \/ ~ValueKept(f)) => DueByTime(f)
                /\ f \notin last.acc.generatedF
                /\ (~DueByTime(f) => last.acc.data[f] = last.read.data[f])
                /\ ( /\ DueByTime(f) /\ Elapsed = Interval(f)
                     /\ AboveMinimum(f) /\ last.err = "none" )
                   => (f \in last.acc.rotatedF /\ ~ValueKept(f))

\* A rotation was carried out with elapsed exactly equal to the interval.
C5_Witness ==
    /\ last.valid
    /\ \E f \in ListedFields :
          /\ HadValue(f) /\ StampRead.ok /\ Elapsed = Interval(f)
          /\ f \in last.acc.rotatedF /\ last.written

\* ------------------------------------------------------------------- C6
\* C6: a listed field with no effective rotation interval keeps whatever
\* value it has through every cycle; when it has no value (it was removed
\* from data), a cycle whose generations and write succeed generates it.
C6_NoIntervalValueIsKept ==
    last.valid =>
        \A f \in ListedFields :
            Interval(f) <= 0 =>
                /\ HadValue(f) => (ValueKept(f) /\ last.acc.data[f] = last.read.data[f])
                /\ (~HadValue(f) /\ last.err = "none") =>
                       (f \in last.acc.generatedF /\ last.after.data[f] # NoValue)

\* A cycle that wrote the object left alone a value a user had set on a
\* field without interval.
C6_Witness ==
    /\ last.valid
    /\ last.written
    /\ \E f \in ListedFields :
          Interval(f) <= 0 /\ last.read.data[f] = UserValue(1) /\ ValueKept(f)

\* ------------------------------------------------------------------- C7
\* C7 (as stated): a successful cycle reports no delay exactly when no
\* listed field has a positive effective rotation interval.
C7_DelayIffIntervalConfigured_Original ==
    (last.valid /\ last.err = "none") =>
        ( last.requeue = NoDelay <=> \A f \in ListedFields : Interval(f) <= 0 )

\* C7 (amended): a successful cycle reports no delay exactly when no listed
\* field has a positive interval, or when it wrote nothing, generated-at is
\* present and every positive interval is below the minimum.
C7_DelayIffIntervalConfigured ==
    (last.valid /\ last.err = "none") =>
        ( last.requeue = NoDelay <=>
             \/ \A f \in ListedFields : Interval(f) <= 0
             \/ /\ ~last.written
                /\ StampRead.ok
                /\ \A f \in ListedFields : Interval(f) > 0 => ~AboveMinimum(f) )

\* A cycle wrote the object and reported the smallest interval as delay.
C7_Witness ==
    /\ last.valid
    /\ last.written
    /\ last.acc.rotatedF # {}
    /\ last.requeue = Hour

\* ------------------------------------------------------------------- C8
\* C8: when the caller re-invokes the engine after each delay it returns and
\* nobody else modifies the object, every listed field that has a value and
\* a rotation interval >= minInterval is eventually rotated.
RotatableField(f) ==
    /\ \E i \in 1..Len(secret.ann.autogenerate) : secret.ann.autogenerate[i] = f
    /\ secret.data[f] # NoValue
    /\ getFieldRotationInterval(secret.ann, f) >= cfg.minInterval

C8_EveryFieldEventuallyRotated ==
    \A f \in Fields :
        [](RotatableField(f) => <>(last.valid /\ f \in last.acc.rotatedF))

\* ------------------------------------------------------------------- C9
\* C9: an invocation writes the object at most once, and only if it
\* generated or rotated a field; a cycle in which every field is skipped or
\* refused issues no write and leaves the stored object as it is.
C9_WriteOnlyWhenChanged ==
    last.valid =>
        /\ last.attempted => (last.acc.generatedF \cup last.acc.rotatedF) # {}
        /\ last.written => last.attempted
        /\ last.after.rv <= last.stored.rv + 1
        /\ (~last.written) => last.after = last.stored
        /\ (last.acc.generatedF \cup last.acc.rotatedF \cup last.acc.failedF) = {}
              => (~last.attempted /\ last.after = last.stored)

\* A cycle skipped one field, refused the other and wrote nothing.
C9_Witness ==
    /\ last.valid
    /\ last.acc.skippedF # {}
    /\ last.acc.refusedF # {}
    /\ ~last.attempted
    /\ last.after = last.stored

\* ------------------------------------------------------------------ C10
\* C10 (as stated): starting without generated-at, the annotation is present
\* iff some cycle completed a write, and it then equals the clock time of
\* the most recent successful write; a cycle that writes nothing or whose
\* write fails does not change it.
C10_StampIsLastWrite_Original ==
    hist.ga0 = Absent =>
        /\ HasValue(secret.ann.generatedAt) <=> hist.wrote
        /\ hist.wrote => /\ ParseRFC3339(secret.ann.generatedAt).ok
                         /\ ParseRFC3339(secret.ann.generatedAt).t = hist.lastWrite
        /\ (last.valid /\ ~last.written) => StampKept

\* C10 (amended): ... it then equals that clock time cut to whole seconds,
\* as RFC3339 spells it.
C10_StampIsLastWrite ==
    hist.ga0 = Absent =>
        /\ HasValue(secret.ann.generatedAt) <=> hist.wrote
        /\ hist.wrote => secret.ann.generatedAt = FormatRFC3339(hist.lastWrite)
        /\ (last.valid /\ ~last.written) => StampKept

\* After a first write, a later cycle rotated a field and wrote again.
C10_Witness ==
    /\ hist.ga0 = Absent
    /\ last.valid
    /\ last.written
    /\ last.acc.rotatedF # {}
    /\ secret.ann.generatedAt = FormatRFC3339(last.t)

\* ------------------------------------------------------------------ C11
WriteLost == last.attempted /\ ~last.delivered
EventsOf(type, reason, f) ==
    Cardinality({ i \in 1..Len(last.events) : last.events[i] = Event(type, reason, f) })
NormalEvents ==
    { i \in 1..Len(last.events) : last.events[i].type = EventNormal }

\* C11: when the first-time generation of a listed field fails, the cycle is
\* aborted: no write is issued, the stored object keeps every data value and
\* annotation (values generated in memory for earlier fields are dropped),
\* one GenerationFailed warning is raised and the error is returned.
C11_FirstGenerationFailureAborts ==
    last.valid =>
        \A f \in ListedFields :
            (f \in last.acc.failedF /\ ~HadValue(f))
            => /\ ~last.attempted
               /\ ~last.written
               /\ last.after = last.stored
               /\ last.err = "generate"
               /\ last.requeue = NoDelay
               /\ EventsOf(EventWarning, EventReasonGenerationFailed, f) = 1
               /\ NormalEvents = {}

\* A first-time generation failed after an earlier field of the same cycle
\* had been generated in memory; the stored object kept its data.
C11_Witness ==
    /\ last.valid
    /\ \E f \in ListedFields : f \in last.acc.failedF /\ ~HadValue(f)
    /\ last.acc.generatedF # {}
    /\ last.acc.data # last.stored.data
    /\ last.after = last.stored

\* ------------------------------------------------------------------ C12
\* C12: a generation failure while rotating a field whose rotation is due
\* aborts only that field: the other listed fields are still evaluated in the
\* same cycle, and those generated or rotated are written back.
C12_RotationFailureAbortsOnlyField ==
    last.valid =>
        \A f \in ListedFields :
            (f \in last.acc.failedF /\ HadValue(f) /\ last.delivered)
            => /\ \A g \in ListedFields : Evaluated(g)
               /\ \A g \in last.acc.generatedF \cup last.acc.rotatedF :
                     last.after.data[g] = last.acc.data[g]

\* ------------------------------------------------------------------ C13
\* C13: no field's stored value is overwritten as a side effect of an error
\* that concerns another field: after a generation error or a failed write
\* the stored data is what it was, and a stored value changes only when the
\* field itself had no value or was due, never because another field was
\* refused.
C13_NoOverwriteByForeignError ==
    last.valid =>
        /\ (last.acc.failedF # {} \/ WriteLost \/ last.err # "none")
              => \A f \in AllFields : ValueKept(f)
        /\ \A f \in AllFields :
              ~ValueKept(f)
              => /\ f \in ListedFields
                 /\ f \notin last.acc.refusedF
                 /\ ~HadValue(f) \/ (DueByTime(f) /\ AboveMinimum(f))

\* A cycle refused one field, wrote another, and the refused field's stored
\* value stayed.
C13_Witness ==
    /\ last.valid
    /\ last.written
    /\ \E f \in last.acc.refusedF : HadValue(f) /\ ValueKept(f)
    /\ \E g \in ListedFields : ~ValueKept(g)

\* ------------------------------------------------------------------ C14
\* C14: when the write-back fails, Reconcile returns the error, the stored
\* object (values and generated-at) is unchanged, no success event is emitted
\* and no delay is reported; the object a retry reads is the stored one.
C14_WriteFailureLeavesStored ==
    (last.valid /\ WriteLost) =>
        /\ last.err = "update"
        /\ ~last.written
        /\ last.after = last.stored
        /\ secret = last.stored
        /\ last.requeue = NoDelay
        /\ NormalEvents = {}

\* The write of a rotation was lost although events on rotation are switched
\* on and a delay had been computed in the loop.
C14_Witness ==
    /\ last.valid
    /\ WriteLost
    /\ cfg.createEvents
    /\ last.acc.rotatedF # {}
    /\ last.acc.nextRotation # NoDelay
    /\ last.after = last.stored

\* ------------------------------------------------------------------ C15
\* C15: when invocations of the same object interleave, the write of one
\* that read a version no longer stored fails with the conflict error and
\* leaves the stored object alone; once one invocation has written, every
\* other invocation that read the same version holds a stale one, so at most
\* one of them succeeds; what is stored after a write is the data and
\* generated-at of that single invocation, computed on the version stored
\* before it.
C15_AtMostOneWriterPerVersion ==
    [][ \A w \in Workers :
          (inv[w].pc = "read" /\ inv'[w].pc = "idle")
          => /\ (inv[w].snap.rv # secret.rv)
                  => /\ secret' = secret
                     /\ last'.attempted => (~last'.written /\ last'.err = "update")
             /\ (secret' # secret)
                  => /\ inv[w].snap = secret
                     /\ secret'.rv = secret.rv + 1
                     /\ secret'.data = last'.acc.data
                     /\ secret'.ann.generatedAt = FormatRFC3339(now)
                     /\ \A v \in Workers \ {w} :
                           (inv[v].pc = "read" /\ inv[v].snap.rv = inv[w].snap.rv)
                           => inv'[v].snap.rv # secret'.rv
      ]_vars

\* Two invocations read the same version and both decided to write: the
\* second to finish got the conflict and the winner's object stayed stored.
C15_Witness ==
    /\ last.valid
    /\ last.attempted
    /\ last.delivered
    /\ last.err = "update"
    /\ last.stored.rv = last.read.rv + 1
    /\ last.stored.data # last.read.data
    /\ last.stored.ann.generatedAt = FormatRFC3339(last.t)
    /\ secret = last.stored

\* ------------------------------------------------------------------ C16
\* What a level of the cascade holds for the resolved field.
FieldLevel == [ type     |-> secret.ann.typeF[probe.field],
                length   |-> secret.ann.lengthF[probe.field],
                interval |-> secret.ann.rotateF[probe.field] ]
ObjectLevel == [ type     |-> secret.ann.type,
                 length   |-> secret.ann.length,
                 interval |-> secret.ann.rotate ]
DefaultLevel == [ type     |-> cfg.defaultType,
                  length   |-> cfg.defaultLength,
                  interval |-> 0 ]

\* Whether an annotation value is a valid one for its key, and what it says.
ValidFor(key, v) ==
    CASE key = "type"     -> HasValue(v)
      [] key = "length"   -> HasValue(v) /\ v.k = "int" /\ v.n > 0
      [] key = "interval" -> HasValue(v) /\ v.k = "dur" /\ v.u \in DurationUnits
ValueFor(key, v) ==
    CASE key = "type"     -> v.s
      [] key = "length"   -> v.n
      [] key = "interval" -> v.n * UnitTicks(v.u)
CascadeKeys == {"type", "length", "interval"}

\* C16 (as stated): the effective value is taken from the field-specific
\* annotation when it is present and non-empty, otherwise from the
\* object-wide annotation, otherwise from the default.
C16_CascadeByPresence_Original ==
    probe.op = "resolve" =>
        \A key \in CascadeKeys :
            IF HasValue(FieldLevel[key])
            THEN /\ ValidFor(key, FieldLevel[key])
                 /\ probe[key] = ValueFor(key, FieldLevel[key])
            ELSE IF HasValue(ObjectLevel[key])
            THEN /\ ValidFor(key, ObjectLevel[key])
                 /\ probe[key] = ValueFor(key, ObjectLevel[key])
            ELSE probe[key] = DefaultLevel[key]

\* C16 (amended): the effective value is taken from the first of the
\* field-specific annotation, the object-wide annotation and the default
\* that holds a valid value: any non-empty string for the type, a positive
\* integer for the length, a duration that parses for the interval.  A
\* present value that is not valid is passed over like an absent one.
C16_CascadeByValidity ==
    probe.op = "resolve" =>
        \A key \in CascadeKeys :
            IF ValidFor(key, FieldLevel[key])
            THEN probe[key] = ValueFor(key, FieldLevel[key])
            ELSE IF ValidFor(key, ObjectLevel[key])
            THEN probe[key] = ValueFor(key, ObjectLevel[key])
            ELSE probe[key] = DefaultLevel[key]

\* The field-specific length was present but no positive integer, and the
\* object-wide one was taken; type and interval came from the field level.
C16_Witness ==
    /\ probe.op = "resolve"
    /\ HasValue(FieldLevel.length) /\ ~ValidFor("length", FieldLevel.length)
    /\ probe.length = 16
    /\ probe.type = TypeRSA
    /\ ValidFor("type", ObjectLevel.type)
    /\ probe.interval = Day
    /\ ValidFor("interval", ObjectLevel.interval)

\* ------------------------------------------------------------------ C17
\* The window of the last IsInWindow call.
ProbedWindow == cfg.maintenanceWindows.windows[probe.i]

\* The instants of a week a window covers, as intervals of civil time: for
\* each of its days and each minute from start up to, not including, end,
\* the minute that begins at day * 24h + minute.
CoveredBy(w, t) ==
    \E i \in 1..Len(w.days) :
        \E k \in MinutesOf(w.startTime)..(MinutesOf(w.endTime) - 1) :
            ((t + ZoneOffset(w.timezone, t)) - (ParseDay(w.days[i]) * Day + k * Minute))
                % Week < Minute

LocalDayListed(w, t) ==
    \E i \in 1..Len(w.days) : ParseDay(w.days[i]) = ((t + ZoneOffset(w.timezone, t)) \div Day) % 7
LocalMinute(w, t) == ((t + ZoneOffset(w.timezone, t)) % Day) \div Minute

\* C17: IsInWindow(t) of a window is true iff the weekday of t in the
\* window's timezone is one of its days and start <= minute-of-day < end in
\* that timezone; it is true at the start minute and false at the end minute.
C17_IsInWindowHalfOpen ==
    probe.op = "IsInWindow" =>
        /\ probe.result <=> CoveredBy(ProbedWindow, now)
        /\ ( /\ LocalDayListed(ProbedWindow, now)
             /\ LocalMinute(ProbedWindow, now) = MinutesOf(ProbedWindow.startTime) )
           => probe.result
        /\ LocalMinute(ProbedWindow, now) = MinutesOf(ProbedWindow.endTime)
           => ~probe.result

\* A time on a Tuesday in UTC was found inside a Wednesday window of Berlin,
\* in its first minute.
C17_Witness ==
    /\ probe.op = "IsInWindow"
    /\ probe.result
    /\ ProbedWindow.timezone = "Europe/Berlin"
    /\ (now \div Day) % 7 = 2
    /\ LocalMinute(ProbedWindow, now) = MinutesOf(ProbedWindow.startTime)

\* ------------------------------------------------------------------ C18
\* C18: IsInAnyWindow(t) is true for every t when the feature is disabled;
\* when enabled it is true iff at least one configured window covers t.
C18_IsInAnyWindowAggregate ==
    probe.op = "IsInAnyWindow" =>
        ( probe.result <=>
            \/ ~cfg.maintenanceWindows.enabled
            \/ \E i \in 1..Len(cfg.maintenanceWindows.windows) :
                  CoveredBy(cfg.maintenanceWindows.windows[i], now) )

\* Enabled: only the second window of the list covered the time.
C18_Witness ==
    /\ probe.op = "IsInAnyWindow"
    /\ probe.result
    /\ cfg.maintenanceWindows.enabled
    /\ Len(cfg.maintenanceWindows.windows) = 2
    /\ ~CoveredBy(cfg.maintenanceWindows.windows[1], now)
    /\ CoveredBy(cfg.maintenanceWindows.windows[2], now)

\* ------------------------------------------------------------------ C19
\* C19: GetActiveWindow(t) returns the first window in list order that
\* covers t, and none when no window covers t or when the feature is
\* disabled; enabled, it returns a window exactly when IsInAnyWindow(t).
C19_GetActiveWindowFirstMatch ==
    probe.op = "GetActiveWindow" =>
        LET m == cfg.maintenanceWindows
            covering == { i \in 1..Len(m.windows) : CoveredBy(m.windows[i], now) }
        IN  /\ (~m.enabled \/ covering = {}) => probe.result = 0
            /\ (m.enabled /\ covering # {})
                  => /\ probe.result \in covering
                     /\ \A i \in covering : probe.result <= i
            /\ m.enabled => (probe.result # 0 <=> IsInAnyWindow(m, now))

\* Two windows of the list covered the time; the first was returned.
C19_Witness ==
    /\ probe.op = "GetActiveWindow"
    /\ probe.result = 1
    /\ Len(cfg.maintenanceWindows.windows) = 2
    /\ CoveredBy(cfg.maintenanceWindows.windows[1], now)
    /\ CoveredBy(cfg.maintenanceWindows.windows[2], now)

\* ------------------------------------------------------------------ C20
Reversed(ws) == [i \in 1..Len(ws) |-> ws[Len(ws) + 1 - i]]

\* C20: NextWindowStart(t) of an enabled, non-empty configuration is the
\* minimum of NextStart(t) over its windows, whatever their order in the
\* list; it is the zero time when the feature is disabled or the list empty.
C20_NextWindowStartIsMinimum ==
    probe.op = "NextWindowStart" =>
        LET m == cfg.maintenanceWindows
            starts == { NextStart(m.windows[i], now) : i \in 1..Len(m.windows) }
        IN  IF ~m.enabled \/ Len(m.windows) = 0
            THEN IsZero(probe.result)
            ELSE /\ probe.result \in starts
                 /\ \A x \in starts : probe.result <= x
                 /\ ~IsZero(probe.result)
                 /\ probe.result =
                       NextWindowStart([m EXCEPT !.windows = Reversed(@)], now)

\* The second window of the list starts next, before the first one does.
C20_Witness ==
    /\ probe.op = "NextWindowStart"
    /\ cfg.maintenanceWindows.enabled
    /\ Len(cfg.maintenanceWindows.windows) = 2
    /\ probe.result = NextStart(cfg.maintenanceWindows.windows[2], now)
    /\ probe.result < NextStart(cfg.maintenanceWindows.windows[1], now)
    /\ probe.result > now

\* ------------------------------------------------------------------ C21
\* C21: DurationUntilNextWindow(t) is 0 when the feature is disabled or t
\* lies inside any window of the list; otherwise, for a configuration that
\* passed validation (an enabled feature has a non-empty list), it is
\* NextWindowStart(t) - t, a positive time.  (An enabled configuration with
\* an empty list is rejected at startup; evaluated nevertheless, it gives 0.)
C21_DurationUntilNextWindow ==
    probe.op = "DurationUntilNextWindow" =>
        LET m == cfg.maintenanceWindows
            covered == \E i \in 1..Len(m.windows) : CoveredBy(m.windows[i], now)
        IN  IF ~m.enabled \/ covered THEN probe.result = 0
            ELSE IF Len(m.windows) = 0 THEN probe.result = 0
            ELSE /\ probe.result = NextWindowStart(m, now) - now
                 /\ probe.result > 0

\* Outside every window of an enabled list of two: the time until the
\* earlier of the two starts is reported.
C21_Witness ==
    /\ probe.op = "DurationUntilNextWindow"
    /\ cfg.maintenanceWindows.enabled
    /\ Len(cfg.maintenanceWindows.windows) = 2
    /\ ~IsInAnyWindow(cfg.maintenanceWindows, now)
    /\ probe.result = NextStart(cfg.maintenanceWindows.windows[2], now) - now
    /\ probe.result > 0
    /\ probe.result < Day

\* ------------------------------------------------------------------ C22
\* The conditions under which a window definition is to be accepted: at
\* least one day, weekday names only, two HH:MM times (two numbers and
\* nothing else, hour 0-23, minute 0-59), the end after the start, and a
\* timezone that resolves.
Acceptable(w) ==
    /\ Len(w.days) >= 1
    /\ \A i \in 1..Len(w.days) :
          Normalized(w.days[i]) \in {"sunday", "monday", "tuesday", "wednesday",
                                     "thursday", "friday", "saturday"}
    /\ \A ts \in {w.startTime, w.endTime} :
          /\ Len(ts) = 2
          /\ \A k \in 1..2 : ts[k].num /\ ts[k].rest = ""
          /\ ts[1].n \in 0..23
          /\ ts[2].n \in 0..59
    /\ w.endTime[1].n * 60 + w.endTime[2].n > w.startTime[1].n * 60 + w.startTime[2].n
    /\ w.timezone # ""
    /\ w.timezone \in KnownZones

\* C22: validation accepts a window iff it has at least one day, every day
\* is a weekday name, startTime and endTime are valid HH:MM times, endTime
\* is strictly after startTime, and the timezone is non-empty and resolves;
\* validation of the configuration fails on an empty list and otherwise
\* with the first unacceptable window of the list, identified by its name
\* or, when unnamed, by its index.
C22_ValidateAcceptsExactlyWellFormed ==
    LET ws == cfg.maintenanceWindows.windows
        bad == { i \in 1..Len(ws) : ~Acceptable(ws[i]) }
    IN  /\ probe.op = "Validate" =>
              (probe.result = "none" <=> Acceptable(ws[probe.i]))
        /\ probe.op = "ValidateConfig" =>
              IF Len(ws) = 0 THEN probe.result.err = "empty"
              ELSE IF bad = {} THEN probe.result.err = "none"
              ELSE LET i == CHOOSE j \in bad : \A k \in bad : j <= k
                   IN  /\ probe.result.err = "window"
                       /\ IF ws[i].name # ""
                          THEN probe.result.by = "name" /\ probe.result.name = ws[i].name
                          ELSE probe.result.by = "index" /\ probe.result.index = i - 1

\* ------------------------------------------------------------------ C23
\* C23: Generate and GenerateWithCharset return an error and no value for
\* every keypair type and for every unknown type; the empty type is treated
\* as string; a non-positive length is an error for string and for bytes.
\* A value is returned exactly for string (or empty) with a positive length
\* and a non-empty charset, and for bytes with a positive length.
C23_GenericEntryPoint ==
    probe.op \in {"Generate", "GenerateWithCharset"} =>
        LET ty == cfg.defaultType
            n  == cfg.defaultLength
            r  == probe.result
            keypair == {TypeRSA, TypeECDSA, TypeEd25519}
        IN  /\ ty \in keypair => ~r.ok
            /\ ty \notin keypair \cup {TypeString, TypeBytes, ""} => ~r.ok
            /\ ty \in {TypeString, TypeBytes, ""} /\ n <= 0 => ~r.ok
            /\ ty \in {TypeString, ""} /\ n > 0 => (r.ok <=> probe.charsetLen > 0)
            /\ ty = TypeBytes /\ n > 0 => r.ok
            /\ ~r.ok => r.value = NoValue
            /\ r.ok => r.value # NoValue

\* An unknown type with a usable length and charset is refused.
C23_Witness ==
    /\ probe.op = "Generate"
    /\ cfg.defaultType = "hex"
    /\ cfg.defaultLength = 32
    /\ probe.charsetLen = AlphanumericCharsetLen
    /\ ~probe.result.ok
    /\ probe.result.value = NoValue

\* ------------------------------------------------------------------ C24
\* C24: a listed field whose effective type is a keypair type and which has
\* no value is generated by the cycle that evaluates it, and a cycle that
\* generates or rotates such a field holds both entries, <field> with the
\* private key and <field>.pub with the public key; after a cycle that wrote,
\* the stored object holds both as well.
C24_KeypairFieldWrittenAsPair ==
    last.valid =>
        \A f \in ListedFields :
            getFieldType(last.read.ann, f, cfg) \in {TypeRSA, TypeECDSA, TypeEd25519} =>
                /\ Evaluated(f) /\ ~HadValue(f) => f \in last.acc.generatedF
                /\ f \in last.acc.generatedF \cup last.acc.rotatedF =>
                      /\ last.acc.data[f] # NoValue
                      /\ last.acc.data[PubKey(f)] # NoValue
                      /\ last.written =>
                            /\ last.after.data[f] # NoValue
                            /\ last.after.data[PubKey(f)] # NoValue

\* ------------------------------------------------------------------ C25
\* The smallest element of a non-empty set of delays; NoDelay for none.
Least(S) == IF S = {} THEN NoDelay ELSE CHOOSE x \in S : \A y \in S : x <= y

\* Remaining times of those of the given fields that have a configured
\* interval and whose rotation is not yet due; simply the interval without
\* a usable generated-at.
RemainingTimes(fields) ==
    { IF StampRead.ok THEN Interval(f) - Elapsed ELSE Interval(f) :
        f \in { g \in fields : Interval(g) > 0 /\ ~DueByTime(g) } }

\* C25 (as stated): in a cycle that performs no write the reported delay is
\* the minimum, over the listed fields with a configured interval whose
\* rotation is not yet due, of interval - (now - generated-at), or of the
\* interval when generated-at is absent.
C25_DelayIsLeastRemaining_Original ==
    (last.valid /\ last.err = "none" /\ ~last.attempted) =>
        last.requeue = Least(RemainingTimes(ListedFields))

\* C25 (amended): the minimum is taken over the fields that are not refused:
\* with a usable generated-at a field whose interval is below the minimum
\* contributes nothing; without one every positive interval contributes.
C25_DelayIsLeastRemaining ==
    (last.valid /\ last.err = "none" /\ ~last.attempted) =>
        last.requeue =
            Least(RemainingTimes({ f \in ListedFields :
                                     StampRead.ok => AboveMinimum(f) }))

\* A cycle without write reports the remaining hour of a two-hour interval.
C25_Witness ==
    /\ last.valid /\ last.err = "none" /\ ~last.attempted
    /\ StampRead.ok
    /\ Elapsed > 0
    /\ \E f \in ListedFields :
          /\ AboveMinimum(f)
          /\ ~DueByTime(f)
          /\ last.requeue = Interval(f) - Elapsed

\* ------------------------------------------------------------------ C26
\* C26: after a cycle that performed a write the reported delay is the
\* minimum of the configured intervals of the listed fields, counted from
\* the fresh generated-at = now, and never a remaining time computed against
\* the generated-at the object had before the write.
C26_DelayAfterWriteIsLeastInterval ==
    (last.valid /\ last.err = "none" /\ last.written) =>
        last.requeue =
            Least({ Interval(f) : f \in { g \in ListedFields : Interval(g) > 0 } })

\* ------------------------------------------------------------------ C27
\* C27: in a cycle that evaluates, with windows enabled and now outside every
\* window, a field with a value whose rotation is due, the field is deferred
\* (not rotated) and the cycle reports a delay that is at most
\* DurationUntilNextWindow(now), so that the next invocation happens no
\* later than the next window start.
C27_DeferredFieldWakesAtWindowStart ==
    (last.valid /\ last.err = "none") =>
        \A f \in ListedFields :
            ( /\ HadValue(f)
              /\ DueByTime(f)
              /\ AboveMinimum(f)
              /\ Evaluated(f)
              /\ cfg.maintenanceWindows.enabled
              /\ ~WindowsAccept )
            => /\ f \notin last.acc.rotatedF
               /\ last.requeue # NoDelay
               /\ last.requeue <= DurationUntilNextWindow(cfg.maintenanceWindows, last.t)

\* ------------------------------------------------------------------ C28
\* C28: when the engine is re-invoked exactly after the delay it returned,
\* the object not having been modified in between, the rotation of at least
\* one listed field is due by time at that invocation.
C28_NoNeedlessPolling ==
    (probe.op = "requeued" /\ last.valid) =>
        \E f \in ListedFields : DueByTime(f)

\* ------------------------------------------------------------------ C29
\* C29: a cycle that rotates any field and writes resets the one generated-at
\* of the object, so the elapsed time of every field restarts (below one
\* second, the stamp's resolution); and in the loop of re-invocations a
\* listed field whose interval is longer than that of another listed field
\* is never due by time and never rotated.
C29_SharedStampStarvesLongerInterval ==
    last.valid =>
        /\ (last.acc.rotatedF # {} /\ last.written) =>
              /\ getGeneratedAtTime(last.after.ann).ok
              /\ last.t - getGeneratedAtTime(last.after.ann).t >= 0
              /\ last.t - getGeneratedAtTime(last.after.ann).t < Second
        /\ probe.op = "requeued" =>
              \A f \in ListedFields, g \in ListedFields :
                  (Interval(g) > 0 /\ Interval(g) < Interval(f))
                  => ~DueByTime(f) /\ f \notin last.acc.rotatedF

\* In the loop, password (every hour) is rotated once more and the stamp is
\* reset under apikey (every two hours), which has a value and waits.
C29_Witness ==
    /\ probe.op = "requeued"
    /\ last.valid
    /\ last.written
    /\ last.acc.rotatedF = {"password"}
    /\ Interval("password") = Hour
    /\ Interval("apikey") = 2 * Hour
    /\ HadValue("apikey")
    /\ Elapsed >= Hour
    /\ last.t - getGeneratedAtTime(last.after.ann).t < Second

\* ------------------------------------------------------------------ C30
\* Keys whose annotation, at either level, holds a value that is present but
\* not valid, as the cycle read it for field f.
InvalidAt(ann, f) ==
    { key \in {"length", "interval"} :
        LET fl == IF key = "length" THEN ann.lengthF[f] ELSE ann.rotateF[f]
            ol == IF key = "length" THEN ann.length ELSE ann.rotate
        IN  \/ HasValue(fl) /\ ~ValidFor(key, fl)
            \/ ~ValidFor(key, fl) /\ HasValue(ol) /\ ~ValidFor(key, ol) }

\* C30: a length annotation that is no positive integer, or a rotate
\* annotation that does not parse, is passed over: the getters return the
\* object-wide value if that one is valid and the default (default length,
\* no rotation) otherwise; and a cycle that evaluates a field without value
\* whose annotations hold such a value, its type being one the generator
\* serves, generates the field and raises no warning for it.
C30_InvalidValueFallsThrough ==
    /\ probe.op = "resolve" =>
          \A key \in {"length", "interval"} :
              /\ (HasValue(FieldLevel[key]) /\ ~ValidFor(key, FieldLevel[key]))
                 => probe[key] = IF ValidFor(key, ObjectLevel[key])
                                 THEN ValueFor(key, ObjectLevel[key])
                                 ELSE DefaultLevel[key]
              /\ ( /\ ~ValidFor(key, FieldLevel[key])
                   /\ HasValue(ObjectLevel[key])
                   /\ ~ValidFor(key, ObjectLevel[key]) )
                 => probe[key] = DefaultLevel[key]
    /\ last.valid =>
          \A f \in ListedFields :
              ( /\ InvalidAt(last.read.ann, f) # {}
                /\ Evaluated(f)
                /\ ~HadValue(f)
                /\ getFieldType(last.read.ann, f, cfg) \in {TypeString, TypeBytes} )
              => /\ f \in last.acc.generatedF
                 /\ f \notin last.acc.failedF
                 /\ \A i \in 1..Len(last.events) :
                       ~(last.events[i].type = EventWarning /\ last.events[i].field = f)
                 /\ last.err = "none"

\* password, with a field-specific length of -8 or "long" and a rotate
\* annotation that does not parse at either level, was generated by a cycle
\* without error; its length resolves to the object-wide 16 and it never
\* rotates.
C30_Witness ==
    /\ last.valid
    /\ last.err = "none"
    /\ "password" \in last.acc.generatedF
    /\ InvalidAt(last.read.ann, "password") = {"length", "interval"}
    /\ probe.op = "resolve"
    /\ probe.field = "password"
    /\ HasValue(FieldLevel.length) /\ ~ValidFor("length", FieldLevel.length)
    /\ probe.length = 16
    /\ HasValue(FieldLevel.interval) /\ ~ValidFor("interval", FieldLevel.interval)
    /\ HasValue(ObjectLevel.interval) /\ ~ValidFor("interval", ObjectLevel.interval)
    /\ probe.interval = 0
    /\ last.requeue = NoDelay

C34_StringOfCharsetCharacters ==
    probe.op = "GenerateStringWithCharset" =>
        LET n == probe.length
            r == probe.result
        IN  IF n <= 0 \/ probe.charset = << >>
            THEN ~r.ok /\ r.value = NoValue
            ELSE /\ r.ok
                 /\ Len(r.value) = n
                 /\ \A i \in 1..n :
                       /\ r.value[i] = (probe.randomBytes[i] % Len(probe.charset)) + 1
                       /\ probe.charset[r.value[i]] = 1

\* ------------------------------------------------------------------ C35
\* C35: for every non-empty charset, each position of the charset is the
\* image of the same number of the 256 byte values under
\* index = byte mod len(charset).
C35_EveryPositionEquallyLikely ==
    (probe.op = "GenerateStringWithCharset" /\ probe.charset # << >>) =>
        LET images == [p \in 1..Len(probe.charset) |->
                          Cardinality({ b \in 0..255 :
                              GenerateStringWithCharset(1, probe.charset, <<b>>).value[1] = p })]
        IN  \A p, q \in 1..Len(probe.charset) : images[p] = images[q]


\* ------------------------------------------------------------------ C36
\* C36: a cycle changes only the data entries of fields listed in the
\* autogenerate annotation and the generated-at annotation: every data entry
\* of a field that is not listed and every other annotation is the same in
\* the object held in memory and in the stored object after the cycle as
\* before it.
C36_OnlyListedFieldsAndStampChange ==
    last.valid =>
        /\ \A f \in AllFields \ ListedFields :
              /\ last.acc.data[f] = last.read.data[f]
              /\ last.after.data[f] = last.stored.data[f]
        /\ [last.after.ann EXCEPT !.generatedAt = Absent]
             = [last.stored.ann EXCEPT !.generatedAt = Absent]
        /\ ~last.written => last.after = last.stored

\* A cycle generated a listed field and refreshed generated-at on an object
\* that carries a user's username and a rotate annotation.
C36_Witness ==
    /\ last.valid
    /\ last.written
    /\ last.acc.generatedF # {}
    /\ last.stored.data["username"] # NoValue
    /\ last.after.data["username"] = last.stored.data["username"]
    /\ last.stored.ann.rotate # Absent
    /\ last.after.ann.generatedAt # last.stored.ann.generatedAt


\* ------------------------------------------------------------------ C37
\* C37: after a cycle whose write succeeded, a further cycle run at the same
\* time on the stored result attempts no write and leaves every value and
\* annotation as it is; it returns no error.
C37_IdempotentAtFixedTime ==
    (last.valid /\ last.written) =>
        LET o == Outcome(last.after, last.after, last.t, cfg, TRUE)
        IN  /\ ~o.attempted
            /\ ~o.written
            /\ o.err = "none"
            /\ o.acc.data = last.after.data
            /\ o.after = last.after
            /\ o.acc.generatedF = {} /\ o.acc.rotatedF = {}

\* The write of a cycle that rotated a field (its timestamp was an interval
\* old) is followed by nothing at the same time.
C37_Witness ==
    /\ last.valid
    /\ last.written
    /\ last.acc.rotatedF # {}
    /\ last.t % TicksPerSecond # 0
    /\ ~Outcome(last.after, last.after, last.t, cfg, TRUE).attempted


\* ------------------------------------------------------------------ C38
\* C38: when generated-at is absent or does not parse and every listed field
\* has a value, the next cycle, whenever it runs, writes nothing: the object
\* (generated-at included) is left as it is, no field is rotated, and the
\* delay returned is the smallest interval configured for a listed field.
\* The object being unchanged, the same holds for every cycle after it.
C38_MissingStampNeverRotates ==
    [][ ( /\ ~(HasValue(secret.ann.generatedAt)
               /\ ParseRFC3339(secret.ann.generatedAt).ok)
          /\ \A i \in 1..Len(secret.ann.autogenerate) :
                secret.ann.autogenerate[i] # "" =>
                    secret.data[secret.ann.autogenerate[i]] # NoValue )
        => /\ secret' = secret
           /\ ~last'.attempted /\ ~last'.written
           /\ last'.err = "none"
           /\ last'.acc.rotatedF = {} /\ last'.acc.generatedF = {}
           /\ hist'.wrote = hist.wrote
           /\ last'.requeue =
                 Least({ getFieldRotationInterval(secret.ann, f) :
                           f \in { g \in Fields :
                                     /\ getFieldRotationInterval(secret.ann, g) > 0
                                     /\ \E i \in 1..Len(secret.ann.autogenerate) :
                                           secret.ann.autogenerate[i] = g } })
           /\ wake' = IF last'.requeue = NoDelay THEN NoWake
                      ELSE wake + last'.requeue - WeekShift(wake) ]_vars

\* A re-queued cycle, more than a day after the first one, found fields with
\* an interval of hours and no usable generated-at, and asked to be invoked
\* again after the smaller interval; nothing was ever written.
C38_Witness ==
    /\ last.valid
    /\ probe.op = "requeued"
    /\ ~StampRead.ok
    /\ \A f \in ListedFields : HadValue(f)
    /\ Interval("password") = Hour /\ Interval("apikey") = 2 * Hour
    /\ last.t > 3 * Day
    /\ ~hist.wrote
    /\ ~getGeneratedAtTime(secret.ann).ok
    /\ last.requeue = Hour


\* ------------------------------------------------------------------ C39
\* C39: for an enabled configuration of validated windows and a time t
\* outside every window, NextWindowStart(t) is later than t, at most 7 days
\* later, and inside a window; DurationUntilNextWindow(t) is the distance to
\* it, positive and at most 7 days.
C39_NextWindowStartIsAWindowStart ==
    LET m == cfg.maintenanceWindows
        next == NextWindowStart(m, now)
    IN  ( /\ probe.op \in {"NextWindowStart", "DurationUntilNextWindow"}
          /\ m.enabled
          /\ Len(m.windows) > 0
          /\ \A i \in 1..Len(m.windows) :
                /\ Len(m.windows[i].days) > 0
                /\ \A k \in 1..Len(m.windows[i].days) : ParseDay(m.windows[i].days[k]) >= 0
                /\ MinutesOf(m.windows[i].endTime) > MinutesOf(m.windows[i].startTime)
                /\ m.windows[i].timezone \in KnownZones
          /\ ~IsInAnyWindow(m, now) )
        => /\ next > now
           /\ next <= now + Week
           /\ IsInAnyWindow(m, next)
           /\ probe.op = "NextWindowStart" => probe.result = next
           /\ probe.op = "DurationUntilNextWindow" =>
                 /\ probe.result = next - now
                 /\ probe.result > 0
                 /\ probe.result <= Week


\* ------------------------------------------------------------------ C40
\* C40: a cycle emits at most one success event and only after its write
\* succeeded: GenerationSucceeded exactly when the write succeeded and no
\* field was rotated; RotationSucceeded exactly when the write succeeded, a
\* field was rotated and rotation.createEvents is on; none when a field was
\* rotated with createEvents off or when nothing was written.
C40_SuccessEventAfterWrite ==
    last.valid =>
        /\ Cardinality(NormalEvents) <= 1
        /\ NormalEvents # {} => last.written
        /\ \A i \in NormalEvents :
              /\ last.events[i].reason \in {EventReasonGenerationSucceeded,
                                            EventReasonRotationSucceeded}
              /\ i = Len(last.events)
        /\ EventsOf(EventNormal, EventReasonGenerationSucceeded, "") = 1
              <=> (last.written /\ last.acc.rotatedF = {})
        /\ EventsOf(EventNormal, EventReasonRotationSucceeded, "") = 1
              <=> (last.written /\ last.acc.rotatedF # {} /\ cfg.createEvents)
        /\ ((last.acc.rotatedF # {} /\ ~cfg.createEvents) \/ ~last.written)
              => NormalEvents = {}

\* A cycle rotated one field and generated another that had been removed,
\* wrote the object, and emitted no success event, events on rotation being
\* switched off.
C40_Witness ==
    /\ last.valid
    /\ last.written
    /\ last.acc.rotatedF # {}
    /\ last.acc.generatedF # {}
    /\ ~cfg.createEvents
    /\ NormalEvents = {}

====
